---------------------------- MODULE Spec2Model ----------------------------
(***************************************************************************)
(* A model of the toy-sim simulation core: the fixed-tick integrator       *)
(* (src/src/physics.rs), the millimetre fixed-point conversions and the    *)
(* floating origin (src/src/precision.rs), the orrery construction and     *)
(* position solver (src/src/orrery/solver.rs), the docking passes          *)
(* (src/src/physics/docking.rs) and the schedule the plugins register.     *)
(*                                                                         *)
(* Numbers.  f64 values are modelled as exact rationals held as integers   *)
(* over a fixed denominator that is stated where the value is declared;    *)
(* the inputs are drawn so that every f64 operation on them is exact, and  *)
(* the only rounding left is the one the code asks for (`.round()`, the    *)
(* narrowing to f32).  One axis of a vector is modelled where the code     *)
(* treats the three axes by the same expression.  In the tick world the    *)
(* magnitudes of gravity and drag are quotients taken in whole mN.         *)
(***************************************************************************)
EXTENDS Integers, Sequences, FiniteSets, TLC

(***************************************************************************)
(* Arithmetic helpers                                                      *)
(***************************************************************************)
Abs(n) == IF n < 0 THEN -n ELSE n

\* f64::round: to the nearest integer, halves away from zero; n/d with d > 0.
RoundDiv(n, d) ==
    LET a == Abs(n)
        q == a \div d
        r == a - q * d
        m == IF 2 * r >= d THEN q + 1 ELSE q
    IN  IF n >= 0 THEN m ELSE -m

\* Round to nearest, ties to even (the f64 -> f32 narrowing); n/d with d > 0.
RoundHalfEven(n, d) ==
    LET a == Abs(n)
        q == a \div d
        r == a - q * d
        m == IF 2 * r > d \/ (2 * r = d /\ q % 2 = 1) THEN q + 1 ELSE q
    IN  IF n >= 0 THEN m ELSE -m

\* Ticks per second of the fixed clock: Time::from_hz(101.0).
HZ == 101

\* dt^2/2 as a denominator: a displacement (v*dt + a_prev*dt^2/2) in
\* millimetres is (velN + a_prev) / HalfDt2Den.
HalfDt2Den == 2 * HZ * HZ

(***************************************************************************)
(* Bounds of the model                                                     *)
(***************************************************************************)
\* Integration steps taken in the integrator specification.
MaxSteps == 4
\* Bodies in an orrery configuration.
MaxBodies == 3

(***************************************************************************)
(* State                                                                   *)
(***************************************************************************)
VARIABLES
    \* ---- integrator (one free rigid body, one axis) --------------------
    ipc,          \* "idle" | "accumulate" | "integrate": position in a tick
    steps,        \* apply_forces steps taken so far
    x0_mm,        \* the body's translation_mm at spawn
    v0N,          \* the body's velocity at spawn, in 1/(2*HZ) mm/s
    constF,       \* the force the contributors add each tick, in mN
    constT,       \* the torque the contributors add each tick
    mass,         \* MassProps.mass, kg
    translation_mm,  \* PreciseTransform.translation_mm (one axis)
    velN,         \* Velocity, in units of 1/(2*HZ) mm/s
    acc_prev,     \* PreviousAcceleration, mm/s^2
    force,        \* AccumulatedForce, mN
    torque,       \* AccumulatedTorque about the axis, mN*mm (unit inertia)
    ang_velN,     \* AngularVelocity about the axis, in units of 1/HZ mrad/s
    rotN          \* rotation about the axis, in units of 1/(HZ*HZ) mrad

    \* ---- floating origin: one projection and its deprojection ----------
VARIABLES
    ppc,          \* "idle" | "start" | "projected" | "done"
    origin,       \* FloatingOrigin.0: [translation_mm, rotation]
    ptf,          \* the PreciseTransform projected
    tf,           \* the render Transform: [translation (f32 triple), rotation]
    back          \* deproject's result

    \* ---- orrery: construction from a configuration, then one query ------
VARIABLES
    opc,          \* "idle" | "init" | "failed" | "ready" | "solving" | "answered"
    cfg,          \* OrreryCfg.bodies: the sequence of Body records given
    idx,          \* Orrery::init's position in cfg.bodies
    bodies,       \* Orrery.bodies: the BTreeMap from name to Body
    qname,        \* solve_position's `body` argument
    qepoch,       \* solve_position's `epoch`, in quarter periods
    stack,        \* the names whose solve_position frames are open
    ret,          \* the value the innermost finished frame returned
    answer        \* what the outermost solve_position returned

    \* ---- docking: one run of the two docking passes ----------------------
VARIABLES
    dpc,          \* "idle" | "cog" | "forces" | "done" | "panicked" | "again"
    dw,           \* the world the passes work on: components by entity
    dpre,         \* dw as it was before aggregate_dock_cog
    dtodo         \* the DockChild entities aggregate_dock_forces has yet to visit

    \* ---- one fixed tick after another, each run under two schedules ------
VARIABLES
    tick,         \* the number of the tick being run, from 1
    pass,         \* 1 | 2: which of the two runs of this tick
    schedule,     \* "FixedPreUpdate" | "FixedUpdate" | "FixedPostUpdate" | "idle"
    ran,          \* the systems of `schedule` that have run
    world,        \* components by entity, and the resources
    tick_start,   \* world when the tick began
    first_end     \* world at the end of the tick's first run

    \* ---- sphere of influence: one gravity pass and its command flush ----
VARIABLES
    gpc,          \* "idle" | "start" | "queued" | "flushed"
    gw,           \* the world the gravity pass works on
    gpre          \* gw as it was before the pass

    \* ---- orrery solver: one body queried at one epoch --------------------
VARIABLES
    spc,          \* "idle" | "start" | "position" | "velocity" | "rotation"
    sbodies,      \* Orrery.bodies: name -> Body
    sbody,        \* the `body` argument of the three solve_* functions
    sepoch,       \* the `epoch` argument, in quarter periods
    spos,         \* what solve_position returned
    svel,         \* what solve_velocity returned
    srot          \* what solve_rotation returned

    \* ---- millimetres to f64 metres and back ------------------------------
VARIABLES
    cpc,          \* "idle" | "start" | "metres" | "back"
    cv,           \* the millimetre value converted (one axis of the I64Vec3)
    cm,           \* to_meters_64's result, an f64
    cback         \* to_millimeters' result

    \* ---- orrery configuration: one mass, distance or time field ----------
VARIABLES
    upc,          \* "idle" | "start" | "done"
    uin,          \* the value serde hands to the field's visitor
    uout          \* the deserialiser's Result

    \* ---- gravity's parallel sweep, object by object, pass after pass -----
VARIABLES
    wpc,          \* "idle" | "sweep" | "ended" | "flushed"
    wpass,        \* the number of the gravity pass, from 1
    ww,           \* the world the sweep works on
    wpre,         \* ww as it was when the pass began
    wdone,        \* the objects whose closure has run in this pass
    wqueue        \* the commands queued through ParallelCommands, in order

    \* ---- float_origin over the entities of a world, tick after tick ------
VARIABLES
    fpc,          \* "idle" | "start" | "rebased"
    fticks,       \* the ticks float_origin has run in
    forigin,      \* FloatingOrigin.0
    fents,        \* by entity: its PreciseTransform, Transform and ChildOf
    fpre          \* fents as it was before float_origin ran

integVars == <<ipc, steps, x0_mm, v0N, constF, constT, mass, translation_mm, velN,
               acc_prev, force, torque, ang_velN, rotN>>

projVars == <<ppc, origin, ptf, tf, back>>

orrVars == <<opc, cfg, idx, bodies, qname, qepoch, stack, ret, answer>>

dockVars == <<dpc, dw, dpre, dtodo>>

tickVars == <<tick, pass, schedule, ran, world, tick_start, first_end>>

soiVars == <<gpc, gw, gpre>>

solveVars == <<spc, sbodies, sbody, sepoch, spos, svel, srot>>

convVars == <<cpc, cv, cm, cback>>

unitVars == <<upc, uin, uout>>

sweepVars == <<wpc, wpass, ww, wpre, wdone, wqueue>>

rebaseVars == <<fpc, fticks, forigin, fents, fpre>>

vars == <<integVars, projVars, orrVars, dockVars, tickVars, soiVars, solveVars,
          convVars, unitVars, sweepVars, rebaseVars>>

\* What each part leaves alone.
notInteg == <<projVars, orrVars, dockVars, tickVars, soiVars, solveVars, convVars,
              unitVars, sweepVars,
          rebaseVars>>
notProj == <<integVars, orrVars, dockVars, tickVars, soiVars, solveVars, convVars,
             unitVars, sweepVars,
          rebaseVars>>
notOrr == <<integVars, projVars, dockVars, tickVars, soiVars, solveVars, convVars,
            unitVars, sweepVars,
          rebaseVars>>
notDock == <<integVars, projVars, orrVars, tickVars, soiVars, solveVars, convVars,
             unitVars, sweepVars,
          rebaseVars>>
notTick == <<integVars, projVars, orrVars, dockVars, soiVars, solveVars, convVars,
             unitVars, sweepVars,
          rebaseVars>>
notSoi == <<integVars, projVars, orrVars, dockVars, tickVars, solveVars, convVars,
            unitVars, sweepVars,
          rebaseVars>>
notSolve == <<integVars, projVars, orrVars, dockVars, tickVars, soiVars, convVars,
              unitVars, sweepVars,
          rebaseVars>>
notConv == <<integVars, projVars, orrVars, dockVars, tickVars, soiVars, solveVars,
             unitVars, sweepVars,
          rebaseVars>>
notUnit == <<integVars, projVars, orrVars, dockVars, tickVars, soiVars, solveVars,
             convVars, sweepVars,
          rebaseVars>>
notSweep == <<integVars, projVars, orrVars, dockVars, tickVars, soiVars,
             solveVars, convVars, unitVars,
          rebaseVars>>
notRebase == <<integVars, projVars, orrVars, dockVars, tickVars, soiVars,
              solveVars, convVars, unitVars, sweepVars>>

(***************************************************************************)
(* The values of a part of the state that a specification leaves unused    *)
(***************************************************************************)
None == "None"
NoTransform == [translation_mm |-> <<0, 0, 0>>, rotation |-> 0]
NoRender == [translation |-> <<0, 0, 0>>, rotation |-> 0]

NoBodies == [n \in {} |-> None]
Zero3 == <<0, 0, 0>>
Pending == [some |-> FALSE, pending |-> TRUE, pos |-> Zero3]
NotFound == [some |-> FALSE, pending |-> FALSE, pos |-> Zero3]
Some(pos) == [some |-> TRUE, pending |-> FALSE, pos |-> pos]

IntegIdle ==
    /\ ipc = "idle" /\ steps = 0 /\ x0_mm = 0 /\ v0N = 0 /\ constF = 0
    /\ constT = 0
    /\ mass = 1 /\ translation_mm = 0 /\ velN = 0 /\ acc_prev = 0
    /\ force = 0 /\ torque = 0 /\ ang_velN = 0 /\ rotN = 0

ProjIdle ==
    /\ ppc = "idle" /\ origin = NoTransform /\ ptf = NoTransform
    /\ tf = NoRender /\ back = NoTransform

OrrIdle ==
    /\ opc = "idle" /\ cfg = <<>> /\ idx = 1 /\ bodies = NoBodies
    /\ qname = None /\ qepoch = 0 /\ stack = <<>> /\ ret = Pending
    /\ answer = Pending

NoWorld == [spawned |-> {}]

DockIdle ==
    /\ dpc = "idle" /\ dw = NoWorld /\ dpre = NoWorld /\ dtodo = {}

TickIdle ==
    /\ tick = 0 /\ pass = 1 /\ schedule = "idle" /\ ran = {}
    /\ world = NoWorld /\ tick_start = NoWorld /\ first_end = NoWorld

SoiIdle ==
    /\ gpc = "idle" /\ gw = NoWorld /\ gpre = NoWorld

SolveIdle ==
    /\ spc = "idle" /\ sbodies = NoBodies /\ sbody = None /\ sepoch = 0
    /\ spos = Pending /\ svel = Pending /\ srot = Pending

ConvIdle ==
    /\ cpc = "idle" /\ cv = 0 /\ cm = 0 /\ cback = 0

UnitIdle ==
    /\ upc = "idle" /\ uin = None /\ uout = None

SweepIdle ==
    /\ wpc = "idle" /\ wpass = 0 /\ ww = NoWorld /\ wpre = NoWorld
    /\ wdone = {} /\ wqueue = <<>>

RebaseIdle ==
    /\ fpc = "idle" /\ fticks = 0 /\ forigin = NoTransform
    /\ fents = <<>> /\ fpre = <<>>

\* The parts below the tick, idle together.
PureIdle ==
    SoiIdle /\ SolveIdle /\ ConvIdle /\ UnitIdle /\ SweepIdle /\ RebaseIdle

(***************************************************************************)
(* precision.rs: metres <-> millimetres                                    *)
(***************************************************************************)
\* ToMillimetersExt for DVec3, one axis: (x * 1000.0).round() as i64, for a
\* value of num/den millimetres.
to_millimeters(num, den) == RoundDiv(num, den)

(***************************************************************************)
(* physics.rs: apply_forces, for one entity without DockChild              *)
(***************************************************************************)
\* ptf.translation_mm += (vel.0 * dt + acc_prev.0 * half_dt2).to_millimeters()
VerletPosition(x, v, ap) == x + to_millimeters(v + ap, HalfDt2Den)

\* let acc_new = force.0 / mass.mass
AccNew(f, m) == f \div m

\* A forward-Euler velocity update, v += acc_new * dt.
VerletVelocity_Euler(v, ap, an) == v + 2 * an

\* vel.0 += 0.5 * (acc_prev.0 + acc_new) * dt, in units of 1/(2*HZ) mm/s
VerletVelocity(v, ap, an) == v + ap + an

\* ang_vel.0 += (inv_world * torque.0) * dt, with the default identity
\* inertia, for which inv_world is the identity under every rotation.
AngVelStep(w, tq) == w + tq

\* ptf.rotation = (from_scaled_axis(ang_vel * dt) * ptf.rotation).normalize(),
\* for a rotation about the one axis: the angles add.
RotStep(r, w) == r + w

\* The integrator's loop: the contributors fill the accumulator, then
\* apply_forces consumes it.
Accumulate ==
    /\ ipc = "accumulate"
    /\ steps < MaxSteps
    /\ force' = force + constF
    /\ torque' = torque + constT
    /\ ipc' = "integrate"
    /\ UNCHANGED <<steps, x0_mm, v0N, constF, constT, mass, translation_mm,
                   velN, acc_prev, ang_velN, rotN>>
    /\ UNCHANGED notInteg

apply_forces ==
    /\ ipc = "integrate"
    /\ translation_mm' = VerletPosition(translation_mm, velN, acc_prev)
    /\ velN' = VerletVelocity(velN, acc_prev, AccNew(force, mass))
    /\ acc_prev' = AccNew(force, mass)
    /\ ang_velN' = AngVelStep(ang_velN, torque)
    /\ rotN' = RotStep(rotN, AngVelStep(ang_velN, torque))
    /\ force' = 0
    /\ torque' = 0
    /\ steps' = steps + 1
    /\ ipc' = "accumulate"
    /\ UNCHANGED <<x0_mm, v0N, constF, constT, mass>>
    /\ UNCHANGED notInteg

\* Inputs of the integrator specification.
Masses == {1, 2}
\* Accelerations F/m, mm/s^2; the force drawn is mass * acceleration.
AccInputs == {0, 3, -7, 1000}
\* Spawn velocities in 1/(2*HZ) mm/s: 0, 10 mm/s, 40 mm/s (0.396 mm per
\* tick), -50 mm/s, 101 mm/s (1 mm per tick), 1 m/s.
VelInputs == {0, 2020, 8080, -10100, 20402, 202000}
PosInputs == {0, -5}
TorqueInputs == {0, 6}

InitInteg ==
    /\ ipc = "accumulate"
    /\ steps = 0
    /\ mass \in Masses
    /\ \E a \in AccInputs : constF = mass * a
    /\ constT \in TorqueInputs
    /\ v0N \in VelInputs
    /\ x0_mm \in PosInputs
    /\ translation_mm = x0_mm
    /\ velN = v0N
    /\ acc_prev = 0
    /\ force = 0
    /\ torque = 0
    /\ ang_velN = 0
    /\ rotN = 0
    /\ ProjIdle
    /\ OrrIdle
    /\ DockIdle
    /\ TickIdle
    /\ PureIdle

NextInteg == Accumulate \/ apply_forces

SpecInteg == InitInteg /\ [][NextInteg]_vars

\* The body is between two ticks, n = steps of them behind it.
AtStepBoundary == ipc = "accumulate" /\ steps >= 1

\* C2 (as claimed): a free body with zero initial velocity and zero initial
\* previous acceleration under a constant force F has, after n steps,
\* velocity F/m * n * dt; in units of 1/(2*HZ) mm/s that is 2 * n * (F/m).
C2_VelocityIsFullSteps ==
    (AtStepBoundary /\ v0N = 0) => velN = 2 * steps * (constF \div mass)

\* What apply_forces yields instead: after n steps the velocity is
\* F/m * (n - 1/2) * dt.  The first step averages the zero previous
\* acceleration with F/m, so the velocity trails F/m * n * dt by half a
\* step, F/m * dt/2, for every n.
VelocityLagsHalfStep ==
    (AtStepBoundary /\ v0N = 0) =>
        velN = (2 * steps - 1) * (constF \div mass)

ConstantForceCase ==
    AtStepBoundary /\ v0N = 0 /\ steps = 3 /\ constF # 0 /\ velN # 0

\* C3 (as claimed): with zero force and constant velocity v, after n ticks
\* translation_mm is less than one millimetre from x0 + v * n * dt.
C3_NoRoundingDrift ==
    (AtStepBoundary /\ constF = 0) =>
        Abs(HalfDt2Den * (translation_mm - x0_mm) - v0N * steps)
            < HalfDt2Den

(***************************************************************************)
(* precision.rs: PreciseTransform, FloatingOrigin, project and deproject   *)
(*                                                                         *)
(* translation_mm is a triple of integers.  TLC's integers have 32 bits,   *)
(* so the i64 range is modelled by the 31-bit range MmMin..MmMax: a        *)
(* saturating difference of two such values still fits.  Rotations are     *)
(* the quarter turns about Z, 0..3, whose products and whose action on a   *)
(* vector are exact; the narrowing of the quaternion itself to f32 is not  *)
(* modelled.  An f32 is [k, s], the value k / 2^s with |k| <= 2^24.        *)
(***************************************************************************)
MmMax == 2^30 - 1
MmMin == -(2^30)

\* i64::saturating_sub, i64::saturating_add (per axis of I64Vec3)
SatAdd(a, b) ==
    IF b > 0 /\ a > MmMax - b THEN MmMax
    ELSE IF b < 0 /\ a < MmMin - b THEN MmMin
    ELSE a + b
SatSub(a, b) ==
    IF b < 0 /\ a > MmMax + b THEN MmMax
    ELSE IF b > 0 /\ a < MmMin + b THEN MmMin
    ELSE a - b
\* i64::wrapping_sub in the modelled range: a difference out of range comes
\* back in at the other end.
wrapping_sub(a, b) ==
    [i \in 1..3 |->
        LET d == a[i] - b[i]
        IN  IF d > MmMax THEN (d - 2^30) - 2^30
            ELSE IF d < MmMin THEN (d + 2^30) + 2^30
            ELSE d]

saturating_sub(a, b) == [i \in 1..3 |-> SatSub(a[i], b[i])]
saturating_add(a, b) == [i \in 1..3 |-> SatAdd(a[i], b[i])]

\* Quarter turns about Z: the inverse, the product, and DQuat * DVec3 on a
\* vector of millimetres and on a vector of f32 values.
QuatInverse(q) == (4 - q) % 4
QuatMul(a, b) == (a + b) % 4
NegF32(f) == [k |-> -f.k, s |-> f.s]
RotateMm(q, v) ==
    CASE q = 0 -> v
      [] q = 1 -> <<-v[2], v[1], v[3]>>
      [] q = 2 -> <<-v[1], -v[2], v[3]>>
      [] q = 3 -> <<v[2], -v[1], v[3]>>
RotateF32(q, v) ==
    CASE q = 0 -> v
      [] q = 1 -> <<NegF32(v[2]), v[1], v[3]>>
      [] q = 2 -> <<NegF32(v[1]), NegF32(v[2]), v[3]>>
      [] q = 3 -> <<v[2], NegF32(v[1]), v[3]>>

\* The significand width of an f32.
F32Bits == 24

\* floor(log2(a / 1000)) for a >= 1: the binary exponent of a millimetres
\* taken in metres.
RECURSIVE ExpUp(_, _), ExpDown(_, _)
ExpUp(a, e) == IF 1000 * (2^(e + 1)) <= a THEN ExpUp(a, e + 1) ELSE e
ExpDown(a, j) == IF a * (2^j) >= 1000 THEN -j ELSE ExpDown(a, j + 1)
MetreExponent(a) == IF a >= 1000 THEN ExpUp(a, 0) ELSE ExpDown(a, 1)

\* (n as f64 / 1000.0) as f32, for n millimetres: the nearest f32 to n/1000
\* metres.  With s = 23 - exponent, the significand is n * 2^s / 1000
\* = n * 2^(s-3) / 125, rounded.
MetersF32(n) ==
    IF n = 0 THEN [k |-> 0, s |-> 0]
    ELSE LET s == (F32Bits - 1) - MetreExponent(Abs(n))
         IN  [k |-> RoundHalfEven(n * (2^(s - 3)), 125), s |-> s]

\* (f as f64 * 1000.0).round() as i64: k * 1000 / 2^s = k * 125 / 2^(s-3).
MillimetersOfF32(f) ==
    IF f.k = 0 THEN 0 ELSE to_millimeters(f.k * 125, 2^(f.s - 3))

\* FloatingOrigin::project_loc followed by the `as_vec3` narrowing.
project_loc(o, loc) ==
    LET rel_translation_mm == saturating_sub(loc, o.translation_mm)
        rotated == RotateMm(QuatInverse(o.rotation), rel_translation_mm)
    IN  [i \in 1..3 |-> MetersF32(rotated[i])]

\* FloatingOrigin::project
project(o, p) ==
    [translation |-> project_loc(o, p.translation_mm),
     rotation    |-> QuatMul(QuatInverse(o.rotation), p.rotation)]

\* deproject with the origin's rotation inverted once more.
deproject_InverseRotation(o, t) ==
    LET rel_world == RotateF32(QuatInverse(o.rotation), t.translation)
    IN  [translation_mm |->
             saturating_add(o.translation_mm,
                            [i \in 1..3 |-> MillimetersOfF32(rel_world[i])]),
         rotation |-> QuatMul(QuatInverse(o.rotation), t.rotation)]

\* FloatingOrigin::deproject
deproject(o, t) ==
    LET rel_world == RotateF32(o.rotation, t.translation)
    IN  [translation_mm |->
             saturating_add(o.translation_mm,
                            [i \in 1..3 |-> MillimetersOfF32(rel_world[i])]),
         rotation |-> QuatMul(o.rotation, t.rotation)]

Project ==
    /\ ppc = "start"
    /\ tf' = project(origin, ptf)
    /\ ppc' = "projected"
    /\ UNCHANGED <<origin, ptf, back>>
    /\ UNCHANGED notProj

Deproject ==
    /\ ppc = "projected"
    /\ back' = deproject(origin, tf)
    /\ ppc' = "done"
    /\ UNCHANGED <<origin, ptf, tf>>
    /\ UNCHANGED notProj

\* Inputs: coordinates next to the origin, around the distances 2^23, 2^24
\* and 2^25 mm where an f32 of metres stops resolving millimetres, and at
\* the ends of the integer range.
NearMm == 2^23
CoordsX == {0, 1, -999, 1000, 4194305, -8388607, 8388609, 16777217,
            32768002, -33554435, 100000001, MmMax, MmMin}
CoordsY == {0, -4321, 8388607}
CoordsZ == {7, -16777219}
OriginsX == {0, 1000, -2001, MmMin}
OriginsY == {0, 500}
OriginsZ == {0}
QuarterTurns == 0..3

InitProj ==
    /\ ppc = "start"
    /\ \E x \in CoordsX, y \in CoordsY, z \in CoordsZ, q \in QuarterTurns :
          ptf = [translation_mm |-> <<x, y, z>>, rotation |-> q]
    /\ \E x \in OriginsX, y \in OriginsY, z \in OriginsZ, q \in QuarterTurns :
          origin = [translation_mm |-> <<x, y, z>>, rotation |-> q]
    /\ tf = NoRender
    /\ back = NoTransform
    /\ IntegIdle
    /\ OrrIdle
    /\ DockIdle
    /\ TickIdle
    /\ PureIdle

NextProj == Project \/ Deproject

SpecProj == InitProj /\ [][NextProj]_vars

\* Every axis of the transform is less than NearMm from the origin.
NearOrigin ==
    \A i \in 1..3 :
        Abs(ptf.translation_mm[i] - origin.translation_mm[i]) < NearMm

Names == {"A", "B", "C"}
SemiMajors == {0, 2}          \* metres
Periods == {4}                \* quarter periods per revolution
Epochs == 0..3
BodyMasses == {1}              \* kg
BodyInputs ==
    [name : Names, parent : Names \cup {None}, semi_major : SemiMajors,
     period : Periods, mass : BodyMasses]

\* A parent check that also accepts a body naming itself.
ParentKnown_OrSelf(known, body) ==
    body.parent = None \/ body.parent \in known \/ body.parent = body.name

\* init: `if let Some(parent) = body.parent && !bodies.contains_key(parent)`
\* bails; ParentKnown is the negation of that condition.
ParentKnown(known, body) ==
    body.parent = None \/ body.parent \in known

\* BTreeMap::insert
MapInsert(map, key, val) ==
    [n \in DOMAIN map \cup {key} |-> IF n = key THEN val ELSE map[n]]

\* `parent_mass`, lines 40-48: the mass of the parent named, 0.0 without.
parent_mass(known, body) ==
    IF body.parent # None
    THEN IF body.parent \in DOMAIN known THEN known[body.parent].mass ELSE 0
    ELSE 0

\* A period derived from the parent's mass alone.
KeplerPeriod_ParentOnly(a_m, pm, bm) ==
    [kepler_num |-> a_m * a_m * a_m, kepler_den |-> pm]

\* 2 pi sqrt(a_m^3 / mu), mu = G * (parent_mass + body.mass), lines 50-51.
KeplerPeriod(a_m, pm, bm) ==
    [kepler_num |-> a_m * a_m * a_m, kepler_den |-> pm + bm]

\* Lines 34-52: the body as init inserts it.
WithPeriod(known, body) ==
    IF body.period = 0 /\ body.semi_major # 0
    THEN [body EXCEPT
            !.period = KeplerPeriod(body.semi_major,
                                    parent_mass(known, body), body.mass)]
    ELSE body

\* One iteration of `for mut body in cfg.bodies`.  Both bail! exits drop the
\* map under construction: the caller gets an Err and no Orrery.
InitStep ==
    /\ opc = "init"
    /\ idx <= Len(cfg)
    /\ LET body == cfg[idx] IN
          IF ~ParentKnown(DOMAIN bodies, body)
          THEN /\ opc' = "failed"          \* "unidentified parent"
               /\ bodies' = NoBodies
               /\ idx' = idx
          ELSE IF body.name \in DOMAIN bodies
          THEN /\ opc' = "failed"          \* "duplicate name in star system"
               /\ bodies' = NoBodies
               /\ idx' = idx
          ELSE /\ bodies' = MapInsert(bodies, body.name,
                                      WithPeriod(bodies, body))
               /\ idx' = idx + 1
               /\ opc' = IF idx = Len(cfg) THEN "ready" ELSE "init"
    /\ UNCHANGED <<cfg, qname, qepoch, stack, ret, answer>>
    /\ UNCHANGED notOrr

\* An empty body list: the loop body never runs and init returns Ok.
InitEmpty ==
    /\ opc = "init"
    /\ Len(cfg) = 0
    /\ opc' = "ready"
    /\ UNCHANGED <<cfg, idx, bodies, qname, qepoch, stack, ret, answer>>
    /\ UNCHANGED notOrr

\* The position on a circular orbit of radius a metres, in millimetres, at
\* a mean anomaly of `phase` quarter turns: (a cos M, a sin M, 0) * 1000,
\* rounded by to_millimeters.
OrbitOffset(a, phase) ==
    LET r == to_millimeters(a * 1000, 1)
    IN  CASE phase = 0 -> <<r, 0, 0>>
          [] phase = 1 -> <<0, r, 0>>
          [] phase = 2 -> <<-r, 0, 0>>
          [] phase = 3 -> <<0, -r, 0>>

Add3(a, b) == [i \in 1..3 |-> a[i] + b[i]]

\* solve_position's body once parent_pos is known.
PositionFrom(body, parent_pos, epoch) ==
    IF body.semi_major = 0
    THEN parent_pos
    ELSE Add3(parent_pos,
              OrbitOffset(body.semi_major, ((4 * epoch) \div body.period) % 4))

\* A caller asks for a position.
Query ==
    /\ opc = "ready"
    /\ \E n \in Names, e \in Epochs : qname' = n /\ qepoch' = e
    /\ stack' = <<qname'>>
    /\ ret' = Pending
    /\ opc' = "solving"
    /\ UNCHANGED <<cfg, idx, bodies, answer>>
    /\ UNCHANGED notOrr

\* Close the innermost frame with value r; the outermost frame's value is
\* the answer.
CloseFrame(r) ==
    /\ stack' = SubSeq(stack, 1, Len(stack) - 1)
    /\ IF Len(stack) = 1
       THEN /\ opc' = "answered"
            /\ answer' = r
            /\ ret' = Pending
       ELSE /\ ret' = r
            /\ UNCHANGED <<opc, answer>>

\* The innermost frame runs up to its recursive call (or to its return when
\* it makes none): `self.bodies.get(body)?`, then the parent lookup.
SolveEnter ==
    /\ opc = "solving"
    /\ ret.pending
    /\ LET b == stack[Len(stack)] IN
          IF b \notin DOMAIN bodies
          THEN CloseFrame(NotFound)
          ELSE IF bodies[b].parent # None
          THEN /\ stack' = Append(stack, bodies[b].parent)
               /\ UNCHANGED <<opc, ret, answer>>
          ELSE CloseFrame(Some(PositionFrom(bodies[b], Zero3, qepoch)))
    /\ UNCHANGED <<cfg, idx, bodies, qname, qepoch>>
    /\ UNCHANGED notOrr

\* The recursive call returned: `self.solve_position(parent, epoch)?`.
SolveResume ==
    /\ opc = "solving"
    /\ ~ret.pending
    /\ LET b == stack[Len(stack)] IN
          IF ~ret.some
          THEN CloseFrame(NotFound)
          ELSE CloseFrame(Some(PositionFrom(bodies[b], ret.pos, qepoch)))
    /\ UNCHANGED <<cfg, idx, bodies, qname, qepoch>>
    /\ UNCHANGED notOrr

\* The caller takes the answer; the Orrery serves the next query.
Answered ==
    /\ opc = "answered"
    /\ opc' = "ready"
    /\ UNCHANGED <<cfg, idx, bodies, qname, qepoch, stack, ret, answer>>
    /\ UNCHANGED notOrr

InitOrrery ==
    /\ opc = "init"
    /\ \E n \in 0..MaxBodies : cfg \in [1..n -> BodyInputs]
    /\ idx = 1
    /\ bodies = NoBodies
    /\ qname = None
    /\ qepoch = 0
    /\ stack = <<>>
    /\ ret = Pending
    /\ answer = Pending
    /\ IntegIdle
    /\ ProjIdle
    /\ DockIdle
    /\ TickIdle
    /\ PureIdle

NextOrrery ==
    InitStep \/ InitEmpty \/ Query \/ SolveEnter \/ SolveResume \/ Answered

SpecOrrery == InitOrrery /\ [][NextOrrery]_vars

\* The body list breaks one of init's two rules: at some position the name
\* was already given, or the parent named has not appeared strictly before.
NamesBefore(c, i) == {c[j].name : j \in 1..(i - 1)}
BadCfg(c) ==
    \E i \in 1..Len(c) :
        \/ c[i].name \in NamesBefore(c, i)
        \/ c[i].parent # None /\ c[i].parent \notin NamesBefore(c, i)

Built == opc \in {"ready", "solving", "answered"}

\* C5: Orrery::init returns an error, and no Orrery, whenever the body list
\* holds a name twice or a parent that has not appeared strictly earlier
\* (a later body, an absent body, the body itself); it succeeds only when
\* the names are unique and every parent precedes its children.
C5_InitRejectsBadConfigs ==
    /\ opc = "failed" => (BadCfg(cfg) /\ bodies = NoBodies)
    /\ Built => ~BadCfg(cfg)
    /\ opc = "init" => ~BadCfg(SubSeq(cfg, 1, idx - 1))

\* A parent declared after its child, among unique names: init fails.
C5_Witness ==
    /\ opc = "failed"
    /\ Len(cfg) = 3
    /\ Cardinality({cfg[i].name : i \in 1..3}) = 3
    /\ cfg[1].parent = None
    /\ cfg[2].parent = cfg[3].name

\* The map init builds from a good body list.
BodiesOf(c) ==
    [n \in {c[i].name : i \in 1..Len(c)} |->
        c[CHOOSE i \in 1..Len(c) : c[i].name = n]]

NoRepeats(seq) == \A i, j \in 1..Len(seq) : seq[i] = seq[j] => i = j

KeplerSemiMajors == {0, 2}
KeplerPeriods == {0, 4}
KeplerMasses == {1, 2}
KeplerBodies(name, parents) ==
    [name : {name}, parent : parents, semi_major : KeplerSemiMajors,
     period : KeplerPeriods, mass : KeplerMasses]

InitKepler ==
    /\ opc = "init"
    /\ \/ cfg = <<>>
       \/ \E a \in KeplerBodies("A", {None}), b \in KeplerBodies("B", {"A"}),
             c \in KeplerBodies("C", {"A", "B"}) : cfg = <<a, b, c>>
    /\ idx = 1
    /\ bodies = NoBodies
    /\ qname = None
    /\ qepoch = 0
    /\ stack = <<>>
    /\ ret = Pending
    /\ answer = Pending
    /\ IntegIdle
    /\ ProjIdle
    /\ DockIdle
    /\ TickIdle
    /\ PureIdle

NextKepler == InitStep \/ InitEmpty

SpecKepler == InitKepler /\ [][NextKepler]_vars

\* The bodies configured with period 0 and a nonzero semi-major axis.
PeriodUnset(body) == body.period = 0 /\ body.semi_major # 0

\* Two derived periods are the same number.
SamePeriod(p, q) ==
    p.kepler_num * q.kepler_den = q.kepler_num * p.kepler_den

\* C28 (as claimed): after init two bodies configured with period 0, the
\* same nonzero semi-major axis and the same parent have the same period,
\* whatever their own masses; a body configured with a nonzero period keeps
\* exactly that period.
C28_PeriodFromParentMassOnly ==
    opc = "ready" =>
        \A i, j \in 1..Len(cfg) :
            /\ cfg[i].period # 0 =>
                 bodies[cfg[i].name].period = cfg[i].period
            /\ ( /\ PeriodUnset(cfg[i]) /\ PeriodUnset(cfg[j])
                 /\ cfg[i].semi_major = cfg[j].semi_major
                 /\ cfg[i].parent = cfg[j].parent )
                 => SamePeriod(bodies[cfg[i].name].period,
                               bodies[cfg[j].name].period)

\* C28: after init a body configured with period 0 and a nonzero
\* semi-major axis a has the period of a^3 / (M_parent + M_body), the
\* parent's mass being none for a root; a body configured with a nonzero
\* period, or with a zero axis, keeps the period configured.
C28_PeriodFromBothMasses ==
    opc = "ready" =>
        \A i \in 1..Len(cfg) :
            LET body == cfg[i]
                pm == IF body.parent = None THEN 0
                      ELSE bodies[body.parent].mass
            IN  bodies[body.name].period =
                    IF PeriodUnset(body)
                    THEN [kepler_num |-> body.semi_major * body.semi_major
                                             * body.semi_major,
                          kepler_den |-> pm + body.mass]
                    ELSE body.period

\* Two children of the same 2 kg parent on the same axis, of 1 kg and 2 kg,
\* have been given different periods; the parent has kept its own.
C28_Witness ==
    /\ opc = "ready"
    /\ Len(cfg) = 3
    /\ cfg[1].period = 4 /\ cfg[1].mass = 2 /\ cfg[1].semi_major = 2
    /\ bodies["A"].period = 4
    /\ cfg[2].parent = "A" /\ cfg[3].parent = "A"
    /\ PeriodUnset(cfg[2]) /\ PeriodUnset(cfg[3])
    /\ cfg[2].mass = 1 /\ cfg[3].mass = 2
    /\ bodies["B"].period = [kepler_num |-> 8, kepler_den |-> 3]
    /\ bodies["C"].period = [kepler_num |-> 8, kepler_den |-> 4]

(***************************************************************************)
(* physics/docking.rs: aggregate_dock_cog and aggregate_dock_forces        *)
(*                                                                         *)
(* A world is a record of components by entity: spawned (the live          *)
(* entities), dockParent (those with the DockParent marker), dockChild,    *)
(* massProps, ptfs (PreciseTransform), accF and accT (AccumulatedForce     *)
(* and AccumulatedTorque).  Masses are whole kilograms and offsets whole   *)
(* millimetres, so the sums of m * r are exact; the quotient by the mass   *)
(* sum is rounded where the code rounds it.  A rotation is a rotation      *)
(* about Z with rational sine and cosine, held as <<c, s>> in fifths       *)
(* (<<3, 4>> is the 3-4-5 angle).  Forces are in mN, torques in mN*mm/5,   *)
(* inertia in kg*mm^2.                                                     *)
(***************************************************************************)
DockEntities == 1..4

IdentityRot == <<5, 0>>
RotScale == 5

\* DQuat * DVec3 for a rotation about Z, times RotScale.
RotZ(rot, v) ==
    <<rot[1] * v[1] - rot[2] * v[2], rot[2] * v[1] + rot[1] * v[2],
      RotScale * v[3]>>

\* DMat3::from_quat, times RotScale, as a triple of rows.
RotZMat(rot) ==
    <<<<rot[1], -rot[2], 0>>, <<rot[2], rot[1], 0>>, <<0, 0, RotScale>>>>

Sub3(a, b) == [i \in 1..3 |-> a[i] - b[i]]
Cross(a, b) ==
    <<a[2] * b[3] - a[3] * b[2], a[3] * b[1] - a[1] * b[3],
      a[1] * b[2] - a[2] * b[1]>>
MatMul(a, b) ==
    [i \in 1..3 |-> [j \in 1..3 |->
        a[i][1] * b[1][j] + a[i][2] * b[2][j] + a[i][3] * b[3][j]]]
Transpose(a) == [i \in 1..3 |-> [j \in 1..3 |-> a[j][i]]]
MatAdd(a, b) == [i \in 1..3 |-> [j \in 1..3 |-> a[i][j] + b[i][j]]]
ZeroMat == [i \in 1..3 |-> [j \in 1..3 |-> 0]]

\* DMat3::IDENTITY as an inertia: 1 kg*m^2 on the diagonal, in kg*mm^2.
Mm2PerM2 == 1000000
IdentityInertia ==
    [i \in 1..3 |-> [j \in 1..3 |-> IF i = j THEN Mm2PerM2 ELSE 0]]

\* DMat3::inverse, left uninterpreted: the inverse is named by its argument.
DMat3Inverse(m) == [inverse_of |-> m]

\* MassProps::default
DefaultMassProps ==
    [mass |-> 1, inertia |-> IdentityInertia,
     inertia_inv |-> DMat3Inverse(IdentityInertia)]

NotDocked ==
    [docked |-> FALSE, parent |-> 0,
     rel_tf |-> [translation_mm |-> Zero3, rotation |-> IdentityRot]]
DockChild(parent, rel_mm, rel_rot) ==
    [docked |-> TRUE, parent |-> parent,
     rel_tf |-> [translation_mm |-> rel_mm, rotation |-> rel_rot]]

RECURSIVE SetSum(_, _)
SetSum(f, S) ==
    IF S = {} THEN 0
    ELSE LET x == CHOOSE y \in S : TRUE IN f[x] + SetSum(f, S \ {x})

\* children_q of either pass: the entities carrying a DockChild.
DockChildren(w) == {c \in w.spawned : w.dockChild[c].docked}

\* `groups`, lines 43-46: the children naming p.
groups(w, p) == {c \in DockChildren(w) : w.dockChild[c].parent = p}

\* parents_q of either pass: With<DockParent>, Without<DockChild>.
MatchedParents(w) ==
    {p \in w.spawned : p \in w.dockParent /\ ~w.dockChild[p].docked}

\* A sum that counts the children instead of adding their masses.
m_sum_Count(w, p) == Cardinality(groups(w, p))

\* m_sum and m_rsum_local_m (lines 61-69), the latter in kg*mm.
m_sum(w, p) ==
    SetSum([c \in DockEntities |-> w.massProps[c].mass], groups(w, p))
m_rsum_local(w, p) ==
    [i \in 1..3 |->
        SetSum([c \in DockEntities |->
                   w.massProps[c].mass
                       * w.dockChild[c].rel_tf.translation_mm[i]],
               groups(w, p))]

\* Lines 54-56 and 70-72: the parents the pass does not `continue` past.
Aggregates(w, p) ==
    p \in MatchedParents(w) /\ groups(w, p) # {} /\ m_sum(w, p) # 0

\* cog_local_m.to_millimeters(), lines 74-75
cog_local_mm(w, p) ==
    [i \in 1..3 |-> to_millimeters(m_rsum_local(w, p)[i], m_sum(w, p))]

\* A shift of the parent by the local centre of gravity, not rotated into
\* the world.
delta_world_mm_Unrotated(w, p) == cog_local_mm(w, p)

\* (p_tf.rotation * cog_local_m).to_millimeters(), lines 80-81
delta_world_mm(w, p) ==
    LET r == RotZ(w.ptfs[p].rotation, m_rsum_local(w, p))
    IN  [i \in 1..3 |-> to_millimeters(r[i], RotScale * m_sum(w, p))]

\* Line 95: the child's offset after the shift.
ShiftedRel(w, c) ==
    Sub3(w.dockChild[c].rel_tf.translation_mm,
         cog_local_mm(w, w.dockChild[c].parent))

\* Lines 98-103: one child's term of the aggregate inertia; the child's
\* rotation is a quarter turn, for which the division is exact.
ChildInertia(w, c) ==
    LET r == ShiftedRel(w, c)
        rot == RotZMat(w.dockChild[c].rel_tf.rotation)
        turned == MatMul(MatMul(rot, w.massProps[c].inertia), Transpose(rot))
        rr == r[1] * r[1] + r[2] * r[2] + r[3] * r[3]
    IN  [i \in 1..3 |-> [j \in 1..3 |->
            turned[i][j] \div (RotScale * RotScale)
            + w.massProps[c].mass
                * ((IF i = j THEN rr ELSE 0) - r[i] * r[j])]]

RECURSIVE inertia_sum(_, _)
inertia_sum(w, S) ==
    IF S = {} THEN ZeroMat
    ELSE LET c == CHOOSE y \in S : TRUE
         IN  MatAdd(ChildInertia(w, c), inertia_sum(w, S \ {c}))
inertia_local(w, p) == inertia_sum(w, groups(w, p))

\* A pass that writes the mass sum to every parent that has children,
\* before the test for a zero sum.
aggregate_dock_cog_MassBeforeZeroTest(w) ==
    [w EXCEPT
       !.massProps = [e \in DockEntities |->
           IF e \in MatchedParents(w) /\ groups(w, e) # {}
           THEN [w.massProps[e] EXCEPT !.mass = m_sum(w, e)]
           ELSE w.massProps[e]]]

\* aggregate_dock_cog, the whole pass.  The parents' groups are disjoint
\* and a parent is no child, so the iterations of the loop over parents do
\* not read what another iteration writes.
aggregate_dock_cog(w) ==
    [w EXCEPT
       !.ptfs = [e \in DockEntities |->
           IF Aggregates(w, e)
           THEN [w.ptfs[e] EXCEPT
                   !.translation_mm = Add3(@, delta_world_mm(w, e))]
           ELSE w.ptfs[e]],
       !.dockChild = [e \in DockEntities |->
           IF e \in DockChildren(w) /\ Aggregates(w, w.dockChild[e].parent)
           THEN [w.dockChild[e] EXCEPT
                   !.rel_tf.translation_mm = ShiftedRel(w, e)]
           ELSE w.dockChild[e]],
       !.massProps = [e \in DockEntities |->
           IF Aggregates(w, e)
           THEN [mass |-> m_sum(w, e),
                 inertia |-> inertia_local(w, e),
                 inertia_inv |-> DMat3Inverse(inertia_local(w, e))]
           ELSE w.massProps[e]]]

\* `parents.get_mut(dock.parent)` is Ok, line 136.
ParentFound(w, c) == w.dockChild[c].parent \in MatchedParents(w)

\* An iteration that clears the child's accumulators without handing them
\* to the parent.
dock_forces_child_Dropping(w, c) ==
    [w EXCEPT !.accF = [@ EXCEPT ![c] = Zero3],
              !.accT = [@ EXCEPT ![c] = Zero3]]

\* An iteration that hands the child's force and torque on without the
\* torque of the lever arm.
dock_forces_child_NoLever(w, c) ==
    LET p == w.dockChild[c].parent
    IN  [w EXCEPT
           !.accF = [@ EXCEPT ![p] = Add3(@, w.accF[c]), ![c] = Zero3],
           !.accT = [@ EXCEPT ![p] = Add3(@, w.accT[c]), ![c] = Zero3]]

\* One iteration of aggregate_dock_forces' loop, lines 136-143, when the
\* lookup is Ok.
dock_forces_child(w, c) ==
    LET p == w.dockChild[c].parent
        lever == RotZ(w.ptfs[p].rotation, w.dockChild[c].rel_tf.translation_mm)
    IN  [w EXCEPT
           !.accF = [@ EXCEPT ![p] = Add3(@, w.accF[c]), ![c] = Zero3],
           !.accT = [@ EXCEPT
                       ![p] = Add3(@, Add3(w.accT[c], Cross(lever, w.accF[c]))),
                       ![c] = Zero3]]

DockCogPass ==
    /\ dpc = "cog"
    /\ dw' = aggregate_dock_cog(dw)
    /\ dtodo' = DockChildren(dw)
    /\ dpc' = IF DockChildren(dw) = {} THEN "done" ELSE "forces"
    /\ UNCHANGED dpre
    /\ UNCHANGED notDock

\* The loop of aggregate_dock_forces, one child at a time in any order.
\* `.unwrap()` on a failed lookup panics: the pass, and the app, stop there.
DockForcesStep ==
    /\ dpc = "forces"
    /\ \E c \in dtodo :
          IF ParentFound(dw, c)
          THEN /\ dw' = dock_forces_child(dw, c)
               /\ dtodo' = dtodo \ {c}
               /\ dpc' = IF dtodo = {c} THEN "done" ELSE "forces"
          ELSE /\ dpc' = "panicked"
               /\ UNCHANGED <<dw, dtodo>>
    /\ UNCHANGED dpre
    /\ UNCHANGED notDock

\* The next tick's aggregate_dock_cog, over the world this tick's passes
\* left.
DockCogAgain ==
    /\ dpc = "done"
    /\ dpre' = dw
    /\ dw' = aggregate_dock_cog(dw)
    /\ dpc' = "again"
    /\ UNCHANGED dtodo
    /\ UNCHANGED notDock

\* Inputs of the docking specification.  Entity 1 is a DockParent; entity
\* 2 is a DockParent, a rigid body without the marker, or despawned;
\* entities 3 and 4 carry a DockChild, and 3 may carry a DockParent marker
\* as well (a dock parent that is itself docked).
EntityKinds == {"parent", "plain", "despawned"}
DockMasses == {0, 1, 3}
DockOffsets == {<<1000, 0, 0>>, <<-1000, 0, 0>>, <<301, -400, 7>>,
                <<-301, 400, -7>>}
ParentRotations == {<<5, 0>>, <<0, 5>>, <<3, 4>>}
ChildForces == {Zero3, <<2, 0, -1>>}

DockWorld(rot1, kind2, nested, p3, p4, r3, r4, m3, m4, f3) ==
    [spawned |-> IF kind2 = "despawned" THEN {1, 3, 4} ELSE DockEntities,
     dockParent |-> {1} \cup (IF kind2 = "parent" THEN {2} ELSE {})
                        \cup (IF nested THEN {3} ELSE {}),
     dockChild |-> <<NotDocked, NotDocked, DockChild(p3, r3, IdentityRot),
                     DockChild(p4, r4, <<0, 5>>)>>,
     massProps |-> <<DefaultMassProps, DefaultMassProps,
                     [DefaultMassProps EXCEPT !.mass = m3],
                     [mass |-> m4,
                      inertia |-> <<<<2 * Mm2PerM2, 0, 0>>,
                                    <<0, Mm2PerM2, 0>>,
                                    <<0, 0, 3 * Mm2PerM2>>>>,
                      inertia_inv |-> DMat3Inverse(
                                   <<<<2 * Mm2PerM2, 0, 0>>,
                                     <<0, Mm2PerM2, 0>>,
                                     <<0, 0, 3 * Mm2PerM2>>>>)]>>,
     ptfs |-> <<[translation_mm |-> <<10, -20, 30>>, rotation |-> rot1],
                [translation_mm |-> <<-7000, 0, 0>>, rotation |-> IdentityRot],
                [translation_mm |-> Zero3, rotation |-> IdentityRot],
                [translation_mm |-> Zero3, rotation |-> IdentityRot]>>,
     accF |-> <<<<1, 1, 0>>, Zero3, f3, <<0, 3, 0>>>>,
     accT |-> <<Zero3, Zero3, <<0, 0, 10>>, Zero3>>]

InitDock ==
    /\ dpc = "cog"
    /\ \E rot1 \in ParentRotations, kind2 \in EntityKinds, nested \in BOOLEAN,
          p3 \in {1, 2}, p4 \in {1, 2, 3}, r3 \in DockOffsets,
          r4 \in DockOffsets, m3 \in DockMasses, m4 \in DockMasses,
          f3 \in ChildForces :
          dw = DockWorld(rot1, kind2, nested, p3, p4, r3, r4, m3, m4, f3)
    /\ dpre = dw
    /\ dtodo = {}
    /\ IntegIdle
    /\ ProjIdle
    /\ OrrIdle
    /\ TickIdle
    /\ PureIdle

NextDock == DockCogPass \/ DockForcesStep \/ DockCogAgain

SpecDock == InitDock /\ [][NextDock]_vars

\* C7 (as claimed): the docking passes never crash on a DockChild whose
\* parent entity is despawned or is not matched as a DockParent.
C7_LookupMissNeverCrashes == dpc # "panicked"

\* Before the pass, p had exactly the two children a and b, of equal mass,
\* at offsets +d and -d.
EqualOppositePair(p, a, b) ==
    /\ a # b
    /\ p \in MatchedParents(dpre)
    /\ groups(dpre, p) = {a, b}
    /\ dpre.massProps[a].mass = dpre.massProps[b].mass
    /\ \A i \in 1..3 :
          dpre.dockChild[a].rel_tf.translation_mm[i]
              = -dpre.dockChild[b].rel_tf.translation_mm[i]

\* The pass shifted nothing and made p's mass twice the child's.
ZeroShiftDoubleMass(p, a, b) ==
    /\ dw.ptfs[p].translation_mm = dpre.ptfs[p].translation_mm
    /\ dw.dockChild[a].rel_tf = dpre.dockChild[a].rel_tf
    /\ dw.dockChild[b].rel_tf = dpre.dockChild[b].rel_tf
    /\ dw.massProps[p].mass = 2 * dpre.massProps[a].mass

CogPassDone == dpc \in {"forces", "done", "panicked"}

\* C10 (as claimed): for a DockParent with exactly two children of equal
\* mass m at offsets +d and -d, aggregate_dock_cog shifts nothing and sets
\* the parent's mass to 2m, for every m.
C10_EqualOppositePair ==
    CogPassDone =>
        \A p, a, b \in DockEntities :
            EqualOppositePair(p, a, b) => ZeroShiftDoubleMass(p, a, b)

\* C10 (amended): the same for every nonzero m.  With m = 0 the mass sum is
\* zero, the parent is skipped and keeps the mass it had.
C10_EqualOppositePairNonzeroMass ==
    CogPassDone =>
        \A p, a, b \in DockEntities :
            (EqualOppositePair(p, a, b) /\ dpre.massProps[a].mass # 0)
                => ZeroShiftDoubleMass(p, a, b)

\* A turned parent with two 3 kg children at +-(301, -400, 7) comes out
\* with mass 6.
C10_Witness ==
    /\ dpc = "forces"
    /\ EqualOppositePair(1, 3, 4)
    /\ dpre.massProps[3].mass = 3
    /\ dpre.dockChild[3].rel_tf.translation_mm = <<301, -400, 7>>
    /\ dpre.ptfs[1].rotation = <<3, 4>>
    /\ dw.massProps[1].mass = 6

\* A pass of aggregate_dock_cog over dpre has just been made.
AfterCogPass == CogPassDone \/ dpc = "again"

\* C17 (as claimed): a pass of aggregate_dock_cog over the result of a pass
\* shifts nothing: the parents' translations and the children's rel_tf stay
\* as the first pass left them.
C17_CogPassIdempotent ==
    dpc = "again" =>
        /\ \A p \in MatchedParents(dpre) :
             dw.ptfs[p].translation_mm = dpre.ptfs[p].translation_mm
        /\ \A c \in DockChildren(dpre) :
             dw.dockChild[c].rel_tf = dpre.dockChild[c].rel_tf

\* parent.translation_mm + R_parent * rel of a child, times RotScale.
ChildWorldPosition(w, c) ==
    LET p == w.dockChild[c].parent
    IN  Add3([i \in 1..3 |-> RotScale * w.ptfs[p].translation_mm[i]],
             RotZ(w.ptfs[p].rotation, w.dockChild[c].rel_tf.translation_mm))

\* How far the pass moved child c in the world, times RotScale.
ChildWorldMove(c) ==
    Sub3(ChildWorldPosition(dw, c), ChildWorldPosition(dpre, c))

\* The children of the parents a pass works on.
AggregatedChildren(w) ==
    {c \in DockChildren(w) : Aggregates(w, w.dockChild[c].parent)}

\* The parent's rotation takes the axes to axes.
AxisAligned(rot) == rot[1] = 0 \/ rot[2] = 0

ForwardedForce(p) ==
    [i \in 1..3 |->
        SetSum([c \in DockEntities |-> dpre.accF[c][i]], groups(dw, p))]

\* The sum over p's children of child torque + lever arm x child force, the
\* lever arm being the parent's rotation applied to the re-centred offset.
ForwardedTorque(p) ==
    [i \in 1..3 |->
        SetSum([c \in DockEntities |->
                   Add3(dpre.accT[c],
                        Cross(RotZ(dw.ptfs[p].rotation,
                                   dw.dockChild[c].rel_tf.translation_mm),
                              dpre.accF[c]))[i]],
               groups(dw, p))]

\* The total force over a parent and its children.
AssemblyForce(w, p) ==
    [i \in 1..3 |->
        w.accF[p][i]
        + SetSum([c \in DockEntities |-> w.accF[c][i]], groups(w, p))]

\* C23: after aggregate_dock_forces every DockChild's force and torque are
\* zero, each parent's force has grown by the sum of its children's forces
\* and its torque by the sum of child torque + lever arm x child force, and
\* the total force over a parent and its children is what it was.
C23_ForcesForwardedToParent ==
    dpc = "done" =>
        /\ \A c \in DockChildren(dw) :
             dw.accF[c] = Zero3 /\ dw.accT[c] = Zero3
        /\ \A p \in MatchedParents(dw) :
             /\ dw.accF[p] = Add3(dpre.accF[p], ForwardedForce(p))
             /\ dw.accT[p] = Add3(dpre.accT[p], ForwardedTorque(p))
             /\ AssemblyForce(dw, p) = AssemblyForce(dpre, p)

\* A turned parent has received the forces of two children and a torque
\* from their lever arms.
C23_Witness ==
    /\ dpc = "done"
    /\ groups(dw, 1) = {3, 4}
    /\ dpre.ptfs[1].rotation = <<3, 4>>
    /\ dpre.accF[3] # Zero3
    /\ dw.accF[1] = Add3(<<1, 1, 0>>, Add3(dpre.accF[3], <<0, 3, 0>>))
    /\ dw.accT[1] # Add3(dpre.accT[3], dpre.accT[4])
    /\ dw.accF[3] = Zero3 /\ dw.accF[4] = Zero3

\* The parents the pass is to leave untouched: no child names them, or the
\* masses of those that do sum to zero.
SkippedParents(w) ==
    {p \in MatchedParents(w) : groups(w, p) = {} \/ m_sum(w, p) = 0}

\* C27: aggregate_dock_cog leaves a DockParent's MassProps and
\* PreciseTransform and the rel_tf of all its children unchanged when the
\* parent has no children or its children's masses sum to zero.
C27_ZeroMassParentUntouched ==
    AfterCogPass =>
        \A p \in SkippedParents(dpre) :
            /\ dw.massProps[p] = dpre.massProps[p]
            /\ dw.ptfs[p] = dpre.ptfs[p]
            /\ \A c \in groups(dpre, p) :
                 dw.dockChild[c].rel_tf = dpre.dockChild[c].rel_tf

\* A turned parent with two massless children away from its origin, and a
\* parent no child names, have been passed over.
C27_Witness ==
    /\ dpc = "forces"
    /\ groups(dpre, 1) = {3, 4}
    /\ m_sum(dpre, 1) = 0
    /\ dpre.ptfs[1].rotation = <<3, 4>>
    /\ dpre.dockChild[3].rel_tf.translation_mm = <<301, -400, 7>>
    /\ 2 \in MatchedParents(dpre)
    /\ groups(dpre, 2) = {}
    /\ dw.massProps[1] = DefaultMassProps
    /\ dw.dockChild = dpre.dockChild

\* Every DockChild names a live entity that carries the DockParent marker.
WellFormedTree(w) ==
    \A c \in DockChildren(w) :
        w.dockChild[c].parent \in w.spawned \cap w.dockParent

\* The DockChild entities whose parent is itself a DockChild.
GrandChildren(w) ==
    {c \in DockChildren(w) : w.dockChild[c].parent \in DockChildren(w)}

\* C21 (as claimed): in a dock tree with a grandchild chain both passes
\* complete without panic, the grandchild's mass is aggregated into the
\* parent it declares, and its force has left it when the passes are done.
C21_NestedDockCompletes ==
    (WellFormedTree(dpre) /\ GrandChildren(dpre) # {}) =>
        /\ dpc # "panicked"
        /\ CogPassDone =>
             \A c \in GrandChildren(dpre) :
                 LET p == dpre.dockChild[c].parent
                 IN  m_sum(dpre, p) # 0 =>
                         dw.massProps[p].mass = m_sum(dpre, p)
        /\ dpc = "done" =>
             \A c \in GrandChildren(dpre) : dw.accF[c] = Zero3

\* What the code does with such a tree: the parent that is itself docked is
\* matched by neither pass's parents query, so the centre-of-gravity pass
\* leaves it and its children alone and the force pass panics when it
\* reaches the grandchild.
NestedDockSkippedThenPanics ==
    (WellFormedTree(dpre) /\ GrandChildren(dpre) # {}) =>
        /\ CogPassDone =>
             \A c \in GrandChildren(dpre) :
                 LET p == dpre.dockChild[c].parent
                 IN  /\ dw.massProps[p] = dpre.massProps[p]
                     /\ dw.dockChild[c] = dpre.dockChild[c]
        /\ dpc # "done"

(***************************************************************************)
(* The fixed tick: the systems the plugins register in FixedPreUpdate,     *)
(* FixedUpdate and FixedPostUpdate, run in any order the registered        *)
(* constraints admit.                                                      *)
(*                                                                         *)
(* The world of a tick is a docking world with, by entity, vel (Velocity,  *)
(* in 1/(2*HZ) mm/s), acc_prev, ang_vel, aero (AeroEnv), thrust (the       *)
(* thruster's direction * current_thrust, mN, in the vessel's frame) and   *)
(* render (the render Transform); and within_soi, soi_cmds (the queued     *)
(* WithinSoi insertions), camera and origin (FloatingOrigin).  Entity 4    *)
(* is the one Celestial; it sits at the root of the orrery and the other   *)
(* entities lie on the X axis through it.  Values the code computes with   *)
(* square roots and arcs (the camera pose, the origin, the projection      *)
(* by a general rotation) are kept as terms over the values they are       *)
(* computed from.  Systems that only prepare inputs of the modelled ones   *)
(* or touch other state (magic_thrusters, electric_fans, render_flames,    *)
(* the torquers, run_reactors, handle_spawn_vessel) are left out.          *)
(***************************************************************************)
\* Ticks run in the tick specification.
MaxTicks == 2

Celestials == {4}
TheCelestial == 4
CameraFocus == 2

\* The schedules FixedMain runs, in its order.
Schedules == <<"FixedPreUpdate", "FixedUpdate", "FixedPostUpdate">>

\* What the plugins add to each schedule: precision.rs:13; orrery.rs:33,
\* physics.rs:28-31, aerodynamics.rs:20-23, docking.rs:24-27,
\* thruster.rs:13-21; camera.rs:105-110.
SystemsOf(sch) ==
    CASE sch = "FixedPreUpdate" -> {"float_origin"}
      [] sch = "FixedUpdate" ->
            {"move_orrery", "gravity", "update_aero_env", "trivial_drag",
             "apply_thrusters", "aggregate_dock_cog", "aggregate_dock_forces",
             "apply_forces"}
      [] sch = "FixedPostUpdate" ->
            {"camera_controls", "atmo_and_float_origin", "camera_lighting"}
      [] OTHER -> {}

\* The constraints without the `.chain()` of the two docking passes.
Before_DockingUnchained(s) ==
    CASE s = "atmo_and_float_origin" -> {"camera_controls"}
      [] s = "camera_lighting" -> {"camera_controls", "atmo_and_float_origin"}
      [] OTHER -> {}

\* The ordering constraints registered: the two `.chain()` calls.
Before(s) ==
    CASE s = "aggregate_dock_forces" -> {"aggregate_dock_cog"}
      [] s = "atmo_and_float_origin" -> {"camera_controls"}
      [] s = "camera_lighting" -> {"camera_controls", "atmo_and_float_origin"}
      [] OTHER -> {}

\* The order the first run of a tick takes, one of those admitted.
ReferenceOrder ==
    <<"float_origin", "move_orrery", "gravity", "update_aero_env",
      "trivial_drag", "apply_thrusters", "aggregate_dock_cog",
      "aggregate_dock_forces", "apply_forces", "camera_controls",
      "atmo_and_float_origin", "camera_lighting">>
ReferenceBefore(s) ==
    {ReferenceOrder[i] : i \in {k \in 1..Len(ReferenceOrder) :
        \E n \in (k + 1)..Len(ReferenceOrder) : ReferenceOrder[n] = s}}

Sign(n) == IF n > 0 THEN 1 ELSE IF n < 0 THEN -1 ELSE 0

\* Option<Entity>::None, beside the entity ids.
NoEntity == 0

\* gravity's `celestials` query, as a set; w.cel_order is the order in which
\* celestials.iter() yields them.
CelestialsOf(w) == {w.cel_order[i] : i \in 1..Len(w.cel_order)}

\* gravity's `objects` query: MassProps, PreciseTransform, AccumulatedForce.
Objects(w) == w.spawned \ CelestialsOf(w)

\* GEE * cel_mass in mN*mm^2/kg, for the celestial of the tick world.
GravMu == 100000000

\* f = GEE * cel_mass * props.mass / r_squared, as the fraction num/den, for
\* an object on the X axis through the celestials.
GravityMagnitude(w, o, c) ==
    LET d == w.ptfs[c].translation_mm[1] - w.ptfs[o].translation_mm[1]
    IN  [num |-> w.cel_mu[c] * w.massProps[o].mass, den |-> d * d]

\* f >= biggest_gravity, which keeps the last celestial visited of a tie.
Greater_OrEqual(f, g) == f.num * g.den >= g.num * f.den

\* if f > biggest_gravity
Greater(f, g) == f.num * g.den > g.num * f.den

\* obj_to_cel.normalize() * f, in whole mN.
GravityPull(w, o, c) ==
    LET d == w.ptfs[c].translation_mm[1] - w.ptfs[o].translation_mm[1]
        f == GravityMagnitude(w, o, c)
    IN  <<Sign(d) * (f.num \div f.den), 0, 0>>

\* The loop over celestials.iter() from its i-th element on: what
\* closest_celestial holds when the loop ends.
RECURSIVE SoiScan(_, _, _, _, _)
SoiScan(w, o, i, biggest_gravity, closest) ==
    IF i > Len(w.cel_order) THEN closest
    ELSE LET c == w.cel_order[i]
             f == GravityMagnitude(w, o, c)
         IN  IF Greater(f, biggest_gravity)
             THEN SoiScan(w, o, i + 1, f, c)
             ELSE SoiScan(w, o, i + 1, biggest_gravity, closest)

\* let mut closest_celestial = None; let mut biggest_gravity = 0.0; for ...
closest_celestial(w, o) ==
    SoiScan(w, o, 1, [num |-> 0, den |-> 1], NoEntity)

\* What the loop has added to force.0 when it ends.
RECURSIVE GravitySum(_, _, _)
GravitySum(w, o, i) ==
    IF i > Len(w.cel_order) THEN Zero3
    ELSE Add3(GravityPull(w, o, w.cel_order[i]), GravitySum(w, o, i + 1))

\* physics.rs: gravity.  The WithinSoi insertion is a queued command.
gravity(w) ==
    [w EXCEPT
       !.accF = [e \in DockEntities |->
           IF e \in Objects(w) THEN Add3(w.accF[e], GravitySum(w, e, 1))
           ELSE w.accF[e]],
       !.soi_cmds = [e \in DockEntities |->
           IF /\ e \in Objects(w)
              /\ closest_celestial(w, e) # NoEntity
              /\ w.within_soi[e] # closest_celestial(w, e)
           THEN closest_celestial(w, e)
           ELSE w.soi_cmds[e]]]

\* orrery.rs: move_orrery.  The celestial is a root body with no orbit:
\* solve_position returns the parent position, the origin of the system.
move_orrery(w) ==
    [w EXCEPT
       !.ptfs[TheCelestial].translation_mm =
           PositionFrom([semi_major |-> 0, period |-> 4], Zero3, tick)]

\* aero_env.rs: update_aero_env, for the entities with WithinSoi; the
\* atmosphere is at rest (no spin, no orbit), the density is that of the
\* altitude band the entities stay in.
update_aero_env(w) ==
    [w EXCEPT
       !.aero = [e \in DockEntities |->
           IF w.within_soi[e] # NoEntity THEN [airspeed |-> w.vel[e]] ELSE w.aero[e]]]

\* 1 / (0.5 * density * DRAG_COEFF * AREA), for airspeed in 1/(2*HZ) mm/s
\* and force in mN.
DragDen == 40000000

\* -v.normalize() * drag_mag for a vector along one axis.
DragAlong(v) == [i \in 1..3 |-> -Sign(v[i]) * ((v[i] * v[i]) \div DragDen)]

\* aerodynamics.rs: trivial_drag
trivial_drag(w) ==
    [w EXCEPT
       !.accF = [e \in DockEntities |->
           IF e \in Objects(w)
           THEN Add3(w.accF[e], DragAlong(w.aero[e].airspeed))
           ELSE w.accF[e]],
       !.accT = [e \in DockEntities |->
           IF e \in Objects(w) THEN Add3(w.accT[e], DragAlong(w.ang_vel[e]))
           ELSE w.accT[e]]]

\* thruster.rs: apply_thrusters; the thrusters sit at offset zero.
apply_thrusters(w) ==
    [w EXCEPT
       !.accF = [e \in DockEntities |->
           IF e \in Objects(w)
           THEN Add3(w.accF[e],
                     [i \in 1..3 |->
                         RotZ(w.ptfs[e].rotation, w.thrust[e])[i]
                             \div RotScale])
           ELSE w.accF[e]]]

\* aggregate_dock_forces, the whole pass, when every lookup is Ok.
RECURSIVE dock_forces_over(_, _)
dock_forces_over(w, S) ==
    IF S = {} THEN w
    ELSE LET c == CHOOSE y \in S : TRUE
         IN  dock_forces_over(dock_forces_child(w, c), S \ {c})
aggregate_dock_forces(w) == dock_forces_over(w, DockChildren(w))

\* A query without the Without<DockChild> filter.
Integrated_WithDockChildren(w) == Objects(w)

\* apply_forces' query: rigid bodies Without<DockChild>.
Integrated(w) == {e \in Objects(w) : ~w.dockChild[e].docked}

\* from_scaled_axis(ang_vel * dt) * rotation.  Only the zero turn has a
\* rational sine and cosine; no input of the tick world produces a torque.
Unrepresented == <<0, 0>>
TurnBy(rot, av) == IF av = Zero3 THEN rot ELSE Unrepresented

\* physics.rs: apply_forces over its whole query, axis by axis.
ApplyForcesTo(w) ==
    LET acc_new(e) == [i \in 1..3 |-> AccNew(w.accF[e][i], w.massProps[e].mass)]
        av_new(e) == [i \in 1..3 |-> AngVelStep(w.ang_vel[e][i], w.accT[e][i])]
    IN  [w EXCEPT
           !.ptfs = [e \in DockEntities |->
               IF e \in Integrated(w)
               THEN [translation_mm |->
                        [i \in 1..3 |->
                            VerletPosition(w.ptfs[e].translation_mm[i],
                                           w.vel[e][i], w.acc_prev[e][i])],
                     rotation |-> TurnBy(w.ptfs[e].rotation, av_new(e))]
               ELSE w.ptfs[e]],
           !.vel = [e \in DockEntities |->
               IF e \in Integrated(w)
               THEN [i \in 1..3 |->
                        VerletVelocity(w.vel[e][i], w.acc_prev[e][i],
                                       acc_new(e)[i])]
               ELSE w.vel[e]],
           !.acc_prev = [e \in DockEntities |->
               IF e \in Integrated(w) THEN acc_new(e) ELSE w.acc_prev[e]],
           !.ang_vel = [e \in DockEntities |->
               IF e \in Integrated(w) THEN av_new(e) ELSE w.ang_vel[e]],
           !.accF = [e \in DockEntities |->
               IF e \in Integrated(w) THEN Zero3 ELSE w.accF[e]],
           !.accT = [e \in DockEntities |->
               IF e \in Integrated(w) THEN Zero3 ELSE w.accT[e]]]

\* precision.rs: float_origin.  A render Transform is the projection of
\* `loc` by `origin`; written_in is the tick the origin was written in.
float_origin(w) ==
    [w EXCEPT
       !.render = [e \in DockEntities |->
           [origin |-> w.origin, loc |-> w.ptfs[e]]]]

\* camera.rs: camera_controls, without input events: the camera pose is a
\* function of the focus, and of the celestial when the focus has WithinSoi.
camera_controls(w) ==
    [w EXCEPT
       !.camera =
           [focus |-> w.ptfs[CameraFocus].translation_mm,
            up_from |-> IF w.within_soi[CameraFocus] # NoEntity
                        THEN w.ptfs[w.within_soi[CameraFocus]].translation_mm
                        ELSE Zero3,
            up_is_y |-> w.within_soi[CameraFocus] = NoEntity]]

\* camera.rs: atmo_and_float_origin: origin.0 = best_origin, a function of
\* the camera pose and the celestials' transforms.
atmo_and_float_origin(w) ==
    [w EXCEPT
       !.origin = [written_in |-> tick, camera |-> w.camera,
                   celestial |-> w.ptfs[TheCelestial].translation_mm]]

\* A camera_lighting that puts the origin back to the one of startup.
camera_lighting_ResetsOrigin(w) == [w EXCEPT !.origin.written_in = 0]

\* camera.rs: camera_lighting reads the origin (Res<FloatingOrigin>) and
\* writes the light only.
camera_lighting(w) == w

\* FloatingOrigin::default and the camera's pose at spawn.
NoCamera == [focus |-> Zero3, up_from |-> Zero3, up_is_y |-> TRUE]
DefaultOrigin == [written_in |-> 0, camera |-> NoCamera, celestial |-> Zero3]

\* A system may run: it is in the running schedule, has not run in this
\* tick, and the systems it is ordered after have.  The first of a tick's
\* two runs keeps to ReferenceOrder.
CanRun(s) ==
    /\ s \in SystemsOf(schedule)
    /\ s \notin ran
    /\ Before(s) \subseteq ran
    /\ pass = 1 => ReferenceBefore(s) \subseteq ran

HasRun(s) ==
    /\ ran' = ran \cup {s}
    /\ UNCHANGED <<tick, pass, schedule, tick_start, first_end>>
    /\ UNCHANGED notTick

Run_float_origin ==
    /\ CanRun("float_origin")
    /\ world' = float_origin(world)
    /\ HasRun("float_origin")

Run_move_orrery ==
    /\ CanRun("move_orrery")
    /\ world' = move_orrery(world)
    /\ HasRun("move_orrery")

Run_gravity ==
    /\ CanRun("gravity")
    /\ world' = gravity(world)
    /\ HasRun("gravity")

Run_update_aero_env ==
    /\ CanRun("update_aero_env")
    /\ world' = update_aero_env(world)
    /\ HasRun("update_aero_env")

Run_trivial_drag ==
    /\ CanRun("trivial_drag")
    /\ world' = trivial_drag(world)
    /\ HasRun("trivial_drag")

Run_apply_thrusters ==
    /\ CanRun("apply_thrusters")
    /\ world' = apply_thrusters(world)
    /\ HasRun("apply_thrusters")

Run_aggregate_dock_cog ==
    /\ CanRun("aggregate_dock_cog")
    /\ world' = aggregate_dock_cog(world)
    /\ HasRun("aggregate_dock_cog")

\* Every DockChild of the tick world names a matched parent.
Run_aggregate_dock_forces ==
    /\ CanRun("aggregate_dock_forces")
    /\ \A c \in DockChildren(world) : ParentFound(world, c)
    /\ world' = aggregate_dock_forces(world)
    /\ HasRun("aggregate_dock_forces")

Run_apply_forces ==
    /\ CanRun("apply_forces")
    /\ world' = ApplyForcesTo(world)
    /\ HasRun("apply_forces")

Run_camera_controls ==
    /\ CanRun("camera_controls")
    /\ world' = camera_controls(world)
    /\ HasRun("camera_controls")

Run_atmo_and_float_origin ==
    /\ CanRun("atmo_and_float_origin")
    /\ world' = atmo_and_float_origin(world)
    /\ HasRun("atmo_and_float_origin")

Run_camera_lighting ==
    /\ CanRun("camera_lighting")
    /\ world' = camera_lighting(world)
    /\ HasRun("camera_lighting")

\* The queued commands are applied when a schedule has run all its systems.
ApplyDeferred(w) ==
    [w EXCEPT
       !.within_soi = [e \in DockEntities |->
           IF w.soi_cmds[e] # NoEntity THEN w.soi_cmds[e] ELSE w.within_soi[e]],
       !.soi_cmds = [e \in DockEntities |-> NoEntity]]

NextSchedule(sch) ==
    CASE sch = "FixedPreUpdate" -> "FixedUpdate"
      [] sch = "FixedUpdate" -> "FixedPostUpdate"
      [] sch = "FixedPostUpdate" -> "end"

\* FixedMain goes on to the next schedule.
FinishSchedule ==
    /\ schedule \in {"FixedPreUpdate", "FixedUpdate", "FixedPostUpdate"}
    /\ SystemsOf(schedule) \subseteq ran
    /\ schedule' = NextSchedule(schedule)
    /\ world' = ApplyDeferred(world)
    /\ UNCHANGED <<tick, pass, ran, tick_start, first_end>>
    /\ UNCHANGED notTick

\* The reference run of the tick is over: the tick is run again from the
\* same world, under any schedule.
RunAgain ==
    /\ schedule = "end"
    /\ pass = 1
    /\ first_end' = world
    /\ world' = tick_start
    /\ pass' = 2
    /\ ran' = {}
    /\ schedule' = "FixedPreUpdate"
    /\ UNCHANGED <<tick, tick_start>>
    /\ UNCHANGED notTick

\* The next tick starts from the world the second run left.
NextTick ==
    /\ schedule = "end"
    /\ pass = 2
    /\ tick < MaxTicks
    /\ tick' = tick + 1
    /\ tick_start' = world
    /\ pass' = 1
    /\ ran' = {}
    /\ first_end' = NoWorld
    /\ schedule' = "FixedPreUpdate"
    /\ UNCHANGED world
    /\ UNCHANGED notTick

\* Inputs of the tick specification: a dock parent (1) 5 m from the
\* celestial with one 3 kg child (3) a metre further out, and a free 1 kg
\* vessel (2) at 3 m moving along the axis; both the vessel and the child
\* carry a burning thruster; no object has a WithinSoi yet.
FocusVelocities == {<<-20200, 0, 0>>, <<40400, 0, 0>>}
NoAero == [airspeed |-> Zero3]

TickWorld(v2) ==
    [spawned |-> DockEntities,
     dockParent |-> {1},
     dockChild |-> <<NotDocked, NotDocked,
                     DockChild(1, <<1000, 0, 0>>, IdentityRot), NotDocked>>,
     massProps |-> <<DefaultMassProps, DefaultMassProps,
                     [DefaultMassProps EXCEPT !.mass = 3], DefaultMassProps>>,
     ptfs |-> <<[translation_mm |-> <<5000, 0, 0>>, rotation |-> IdentityRot],
                [translation_mm |-> <<3000, 0, 0>>, rotation |-> IdentityRot],
                [translation_mm |-> <<6000, 0, 0>>, rotation |-> IdentityRot],
                [translation_mm |-> Zero3, rotation |-> IdentityRot]>>,
     accF |-> <<Zero3, Zero3, Zero3, Zero3>>,
     accT |-> <<Zero3, Zero3, Zero3, Zero3>>,
     vel |-> <<Zero3, v2, Zero3, Zero3>>,
     acc_prev |-> <<Zero3, Zero3, Zero3, Zero3>>,
     ang_vel |-> <<Zero3, Zero3, Zero3, Zero3>>,
     aero |-> <<NoAero, NoAero, NoAero, NoAero>>,
     thrust |-> <<Zero3, <<40, 0, 0>>, <<30, 0, 0>>, Zero3>>,
     render |-> [e \in DockEntities |->
                    [origin |-> DefaultOrigin,
                     loc |-> [translation_mm |-> Zero3,
                              rotation |-> IdentityRot]]],
     cel_order |-> <<TheCelestial>>,
     cel_mu |-> [e \in DockEntities |-> IF e = TheCelestial THEN GravMu ELSE 0],
     within_soi |-> [e \in DockEntities |-> NoEntity],
     soi_cmds |-> [e \in DockEntities |-> NoEntity],
     camera |-> NoCamera,
     origin |-> DefaultOrigin]

InitTick ==
    /\ tick = 1
    /\ pass = 1
    /\ schedule = "FixedPreUpdate"
    /\ ran = {}
    /\ \E v2 \in FocusVelocities : world = TickWorld(v2)
    /\ tick_start = world
    /\ first_end = NoWorld
    /\ IntegIdle
    /\ ProjIdle
    /\ OrrIdle
    /\ DockIdle
    /\ PureIdle

NextTickSpec ==
    \/ Run_float_origin
    \/ Run_move_orrery
    \/ Run_gravity
    \/ Run_update_aero_env
    \/ Run_trivial_drag
    \/ Run_apply_thrusters
    \/ Run_aggregate_dock_cog
    \/ Run_aggregate_dock_forces
    \/ Run_apply_forces
    \/ Run_camera_controls
    \/ Run_atmo_and_float_origin
    \/ Run_camera_lighting
    \/ FinishSchedule
    \/ RunAgain
    \/ NextTick

SpecTick == InitTick /\ [][NextTickSpec]_vars

\* The systems C1 names, by the stage it gives them.
ClaimedStage(s) ==
    CASE s = "move_orrery" -> 1
      [] s = "gravity" -> 2
      [] s \in {"trivial_drag", "apply_thrusters"} -> 3
      [] s = "aggregate_dock_cog" -> 4
      [] s = "aggregate_dock_forces" -> 5
      [] s = "apply_forces" -> 6
ClaimedSystems ==
    {"move_orrery", "gravity", "trivial_drag", "apply_thrusters",
     "aggregate_dock_cog", "aggregate_dock_forces", "apply_forces"}

\* C1 (as claimed): in every tick and under every admitted schedule the
\* FixedUpdate systems run in the order move_orrery, gravity, the force
\* contributors, aggregate_dock_cog, aggregate_dock_forces, apply_forces:
\* a system has run only when every system of an earlier stage has.
C1_SystemsRunInDeclaredOrder ==
    \A s \in ran \cap ClaimedSystems : \A t \in ClaimedSystems :
        ClaimedStage(t) < ClaimedStage(s) => t \in ran

\* C4 (as claimed): once float_origin has run in a tick, every render
\* Transform is the projection by the origin written in that same tick.
C4_ProjectsWithThisTicksOrigin ==
    "float_origin" \in ran =>
        \A e \in DockEntities : world.render[e].origin.written_in = tick

\* The origin is the one of startup until atmo_and_float_origin first runs,
\* and from then on the one written in the latest tick in which it has run.
OriginStamp ==
    /\ world.origin.written_in =
         IF "atmo_and_float_origin" \in ran THEN tick ELSE tick - 1
    /\ world.origin.written_in = 0 => world.origin = DefaultOrigin

\* A step that changes the origin is atmo_and_float_origin's run (or the
\* return to the start of the tick for its second run).
OriginWrittenByAtmoOnly ==
    world'.origin # world.origin =>
        \/ /\ "atmo_and_float_origin" \in ran' \ ran
           /\ world' = atmo_and_float_origin(world)
        \/ pass' # pass

\* C16: FloatingOrigin is the startup identity until the first tick's
\* atmo_and_float_origin; from then on it is written once in every tick, by
\* atmo_and_float_origin, and no other system's run changes it.
C16_OriginHasOneWriter ==
    []OriginStamp /\ [][OriginWrittenByAtmoOnly]_vars

\* The second tick's atmo_and_float_origin has replaced the origin the
\* first tick wrote, after float_origin and camera_lighting read it.
C16_Witness ==
    /\ tick = 2
    /\ schedule = "end"
    /\ pass = 2
    /\ world.origin.written_in = 2
    /\ tick_start.origin.written_in = 1
    /\ \A e \in DockEntities : world.render[e].origin = tick_start.origin

\* In the first tick gravity and both docking passes have run, the children
\* have handed their forces on, and no other contributor has run yet: the
\* parents' accumulators hold gravity only.
GravityOnlyForwarded ==
    /\ tick = 1
    /\ schedule = "FixedUpdate"
    /\ {"gravity", "aggregate_dock_cog", "aggregate_dock_forces"} \subseteq ran
    /\ ran \cap {"trivial_drag", "apply_thrusters", "apply_forces"} = {}
    /\ \A c \in DockChildren(world) : world.accF[c] = Zero3

\* C19 (as claimed): the gravity in a DockParent's accumulator, its own and
\* its children's, is the attraction on one body of the assembly's
\* aggregate mass at the parent's position.
C19_AssemblyGravityCountedOnce ==
    GravityOnlyForwarded =>
        \A p \in MatchedParents(world) :
            groups(world, p) # {} =>
                world.accF[p] =
                    GravitySum([world EXCEPT
                                  !.massProps[p].mass = m_sum(world, p)], p, 1)

\* The entity whose apply_forces step integrates what e accumulates: e
\* itself, or the parent e is docked to.
ConsumerOf(w, e) ==
    IF w.dockChild[e].docked THEN w.dockChild[e].parent ELSE e

\* The sum of the vectors f[e] over the entities e in S.
Sum3(f, S) == [i \in 1..3 |-> SetSum([e \in DockEntities |-> f[e][i]], S)]

\* The force waiting for r's apply_forces step: r's accumulator and those
\* of the children docked to r.
PendingForce(w, r) ==
    Sum3(w.accF, {e \in Objects(w) : ConsumerOf(w, e) = r})

\* What system s adds to e's AccumulatedForce when it runs on w.
ContributionOf(s, w, e) ==
    CASE s = "gravity" -> GravitySum(w, e, 1)
      [] s = "trivial_drag" -> DragAlong(w.aero[e].airspeed)
      [] s = "apply_thrusters" ->
           [i \in 1..3 |-> RotZ(w.ptfs[e].rotation, w.thrust[e])[i] \div RotScale]
      [] OTHER -> Zero3

\* The system a step runs, "none" for a step of the schedule itself.
SystemRun == IF ran' \ ran = {} THEN "none" ELSE CHOOSE s \in ran' \ ran : TRUE

\* A step of a tick changes the force waiting for an integrated entity by
\* what the step's system contributes, and apply_forces takes the entity's
\* accumulator whole, applies it and leaves zero.
ForceLedgerStep ==
    \A r \in Integrated(world) :
        IF SystemRun = "apply_forces"
        THEN /\ world'.accF[r] = Zero3
             /\ world'.acc_prev[r] =
                  [i \in 1..3 |-> AccNew(world.accF[r][i], world.massProps[r].mass)]
             /\ PendingForce(world', r) =
                  Sub3(PendingForce(world, r), world.accF[r])
        ELSE PendingForce(world', r) =
                 Add3(PendingForce(world, r),
                      Sum3([e \in DockEntities |->
                               ContributionOf(SystemRun, world, e)],
                           {e \in Objects(world) : ConsumerOf(world, e) = r}))

CogBeforeForces ==
    "aggregate_dock_forces" \in ran => "aggregate_dock_cog" \in ran

\* The step that runs aggregate_dock_forces runs the whole pass, after this
\* tick's aggregate_dock_cog, over the offsets that pass left; and no step
\* but aggregate_dock_cog's whole pass changes an offset.
DockPassesInOrder ==
    /\ SystemRun = "aggregate_dock_forces" =>
         /\ "aggregate_dock_cog" \in ran
         /\ world.dockChild = aggregate_dock_cog(tick_start).dockChild
         /\ world' = aggregate_dock_forces(world)
    /\ world'.dockChild # world.dockChild =>
         \/ /\ SystemRun = "aggregate_dock_cog"
            /\ world' = aggregate_dock_cog(world)
         \/ pass' # pass

\* C24: in every tick aggregate_dock_cog has run to completion before
\* aggregate_dock_forces starts, under every admitted schedule, and the
\* lever arms aggregate_dock_forces uses are the offsets re-centred by the
\* same tick's aggregate_dock_cog.
C24_CogPassBeforeForcesPass ==
    []CogBeforeForces /\ [][DockPassesInOrder]_vars

\* In the first tick the two docking passes have run before every other
\* system of FixedUpdate, and the child's offset is the re-centred one.
C24_Witness ==
    /\ tick = 1
    /\ pass = 2
    /\ schedule = "FixedUpdate"
    /\ ran = {"float_origin", "aggregate_dock_cog", "aggregate_dock_forces"}
    /\ tick_start.dockChild[3].rel_tf.translation_mm = <<1000, 0, 0>>
    /\ world.dockChild[3].rel_tf.translation_mm = Zero3

\* Every rigid body's AccumulatedForce and AccumulatedTorque are zero.
AccumulatorsClear(w) ==
    \A e \in Objects(w) : w.accF[e] = Zero3 /\ w.accT[e] = Zero3

\* C22 (as claimed): at the end of every tick, under every admitted order
\* of the FixedUpdate systems, the accumulated force and torque of every
\* rigid body (free, dock parent, dock child) are zero.
C22_AccumulatorsZeroAtTickEnd ==
    schedule = "end" => AccumulatorsClear(world)

\* Under the order move_orrery, gravity, contributors, aggregate_dock_cog,
\* aggregate_dock_forces, apply_forces the accumulators do end at zero.
AccumulatorsZeroInReferenceOrder ==
    (schedule = "end" /\ pass = 1) =>
        (AccumulatorsClear(tick_start) => AccumulatorsClear(world))

\* The components apply_forces writes, of entity e.
IntegratedComponents(w, e) ==
    [ptf |-> w.ptfs[e], vel |-> w.vel[e], ang_vel |-> w.ang_vel[e],
     acc_prev |-> w.acc_prev[e], accF |-> w.accF[e], accT |-> w.accT[e]]

ApplyForcesSkipsDockChildren ==
    SystemRun = "apply_forces" =>
        \A c \in DockChildren(world) :
            IntegratedComponents(world', c) = IntegratedComponents(world, c)

\* C26: apply_forces never changes the PreciseTransform, Velocity,
\* AngularVelocity, PreviousAcceleration or accumulators of an entity that
\* carries a DockChild, in any tick and whatever it has accumulated.
C26_ApplyForcesLeavesDockChildren ==
    [][ApplyForcesSkipsDockChildren]_vars

\* apply_forces has run while the docked child held gravity and thrust it
\* had not yet handed on: the child has them still and has not moved.
C26_Witness ==
    /\ pass = 2
    /\ schedule = "FixedUpdate"
    /\ {"gravity", "apply_thrusters", "apply_forces"} \subseteq ran
    /\ "aggregate_dock_forces" \notin ran
    /\ world.accF[3] # Zero3
    /\ world.accF[3] = Add3(tick_start.accF[3],
                            Add3(ContributionOf("gravity", tick_start, 3),
                                 ContributionOf("apply_thrusters", tick_start, 3)))
    /\ world.vel[3] = tick_start.vel[3]
    /\ world.acc_prev[3] = tick_start.acc_prev[3]
    /\ world.accF[CameraFocus] = Zero3

\* What C9 compares: positions, velocities, accumulators, WithinSoi.
Observed(w) ==
    [ptfs |-> w.ptfs, vel |-> w.vel, accF |-> w.accF, accT |-> w.accT,
     within_soi |-> w.within_soi]

\* C9 (as claimed): two runs of a tick from the same world end in the same
\* state, whatever admitted schedule each takes.
C9_TickIsDeterministic ==
    (schedule = "end" /\ pass = 2) => Observed(world) = Observed(first_end)

\* No torque arises in the tick world: every rotation stays represented.
TickWorldTorqueFree ==
    schedule # "idle" =>
        \A e \in DockEntities :
            world.ang_vel[e] = Zero3 /\ world.ptfs[e].rotation = IdentityRot

(***************************************************************************)
(* Sphere of influence: physics.rs gravity over several celestials, then   *)
(* the flush of the commands it queued                                     *)
(***************************************************************************)
\* Entities 1 and 2 are objects, 3 and 4 celestials on the X axis.
SoiCelestialA == 3
SoiCelestialB == 4

\* The inputs the specification ranges over.
SoiObjectX == {2, 5, 8, 15}
SoiObjectMasses == {0, 1, 2}
SoiMus == {100, 400}
SoiOrders == {<<SoiCelestialA, SoiCelestialB>>, <<SoiCelestialB, SoiCelestialA>>}
SoiBefore == {NoEntity, SoiCelestialA, SoiCelestialB}

SoiWorld(x1, m1, muA, muB, order, s1, s2) ==
    [spawned |-> DockEntities,
     cel_order |-> order,
     cel_mu |-> [e \in DockEntities |->
         IF e = SoiCelestialA THEN muA ELSE IF e = SoiCelestialB THEN muB ELSE 0],
     massProps |-> [e \in DockEntities |->
         [DefaultMassProps EXCEPT !.mass = IF e = 1 THEN m1 ELSE 1]],
     ptfs |-> [e \in DockEntities |->
         [translation_mm |->
              <<CASE e = 1 -> x1 [] e = 2 -> 4 [] e = SoiCelestialA -> 0
                  [] OTHER -> 10, 0, 0>>,
          rotation |-> IdentityRot]],
     accF |-> [e \in DockEntities |-> Zero3],
     within_soi |-> [e \in DockEntities |->
         IF e = 1 THEN s1 ELSE IF e = 2 THEN s2 ELSE NoEntity],
     soi_cmds |-> [e \in DockEntities |-> NoEntity]]

\* gravity runs over every object.
GravityPass ==
    /\ gpc = "start"
    /\ gw' = gravity(gw)
    /\ gpc' = "queued"
    /\ UNCHANGED gpre
    /\ UNCHANGED notSoi

\* The schedule ends: the queued insertions are applied.
FlushCommands ==
    /\ gpc = "queued"
    /\ gw' = ApplyDeferred(gw)
    /\ gpc' = "flushed"
    /\ UNCHANGED gpre
    /\ UNCHANGED notSoi

InitSoi ==
    /\ gpc = "start"
    /\ \E x1 \in SoiObjectX, m1 \in SoiObjectMasses, muA \in SoiMus,
          muB \in SoiMus, order \in SoiOrders, s1 \in SoiBefore, s2 \in SoiBefore :
           gw = SoiWorld(x1, m1, muA, muB, order, s1, s2)
    /\ gpre = gw
    /\ IntegIdle
    /\ ProjIdle
    /\ OrrIdle
    /\ DockIdle
    /\ TickIdle
    /\ SolveIdle
    /\ ConvIdle
    /\ UnitIdle
    /\ SweepIdle
    /\ RebaseIdle

NextSoi == GravityPass \/ FlushCommands

SpecSoi == InitSoi /\ [][NextSoi]_vars

\* Some celestial attracts o with a positive force.
HasAttraction(w, o) ==
    \E c \in CelestialsOf(w) : GravityMagnitude(w, o, c).num > 0

\* The celestial whose force on o no other exceeds, and which comes before
\* every other of the same force in the visiting order.
Strongest(w, o) ==
    LET F(i) == GravityMagnitude(w, o, w.cel_order[i])
        n == Len(w.cel_order)
    IN  w.cel_order[CHOOSE i \in 1..n :
            /\ \A j \in 1..n : F(j).num * F(i).den <= F(i).num * F(j).den
            /\ \A j \in 1..(i - 1) : F(j).num * F(i).den < F(i).num * F(j).den]

\* Two celestials pull o with the same positive force.
SoiTie(w, o) ==
    /\ HasAttraction(w, o)
    /\ \E c \in CelestialsOf(w), d \in CelestialsOf(w) :
         /\ c # d
         /\ GravityMagnitude(w, o, c).num * GravityMagnitude(w, o, d).den
              = GravityMagnitude(w, o, d).num * GravityMagnitude(w, o, c).den

\* C11: after the gravity pass an insertion of WithinSoi is queued for an
\* object exactly when some celestial attracts it and the strongest one
\* (the first visited of a tie) is not its current WithinSoi; after the flush
\* every attracted object's WithinSoi is that strongest celestial.
C11_SoiIsStrongestPull ==
    /\ gpc = "queued" =>
         \A o \in Objects(gpre) :
           gw.soi_cmds[o] =
             IF HasAttraction(gpre, o)
                /\ gpre.within_soi[o] # Strongest(gpre, o)
             THEN Strongest(gpre, o) ELSE NoEntity
    /\ gpc = "flushed" =>
         \A o \in Objects(gpre) :
           HasAttraction(gpre, o) => gw.within_soi[o] = Strongest(gpre, o)

\* An object pulled equally by both celestials has been moved from the
\* second visited to the first.
C11_Witness ==
    /\ gpc = "flushed"
    /\ \E o \in Objects(gpre) :
         /\ SoiTie(gpre, o)
         /\ gpre.within_soi[o] = gpre.cel_order[2]
         /\ gw.within_soi[o] = gpre.cel_order[1]

(***************************************************************************)
(* solver.rs: solve_position, solve_velocity and solve_rotation of one     *)
(* body.  Angles are quarter turns, orbits circular, times quarter periods *)
(***************************************************************************)
QuarterCos(q) == CASE q % 4 = 0 -> 1 [] q % 4 = 1 -> 0 [] q % 4 = 2 -> -1 [] OTHER -> 0
QuarterSin(q) == CASE q % 4 = 0 -> 0 [] q % 4 = 1 -> 1 [] q % 4 = 2 -> 0 [] OTHER -> -1

\* DQuat::from_rotation_z and from_rotation_x, as the rotation's matrix.
from_rotation_z(q) ==
    <<<<QuarterCos(q), -QuarterSin(q), 0>>, <<QuarterSin(q), QuarterCos(q), 0>>,
      <<0, 0, 1>>>>
from_rotation_x(q) ==
    <<<<1, 0, 0>>, <<0, QuarterCos(q), -QuarterSin(q)>>,
      <<0, QuarterSin(q), QuarterCos(q)>>>>

\* DQuat::IDENTITY
DQuatIdentity == <<<<1, 0, 0>>, <<0, 1, 0>>, <<0, 0, 1>>>>

\* rot * v
MatVec(m, v) ==
    [i \in 1..3 |-> m[i][1] * v[1] + m[i][2] * v[2] + m[i][3] * v[3]]

\* from_rotation_z(ascending_node) * from_rotation_x(inclination)
\*   * from_rotation_z(arg_of_pericenter)
OrbitRot(b) ==
    MatMul(MatMul(from_rotation_z(b.ascending_node), from_rotation_x(b.inclination)),
           from_rotation_z(b.arg_of_pericenter))

\* The mean anomaly at `epoch`, in quarter turns: mean_anomaly + n * dt_s with
\* mean_anomaly 0 and the reference epoch 0.
MeanAnomaly(b, epoch) == ((4 * epoch) \div b.period) % 4

\* (rot * pos_orb).to_millimeters(), pos_orb = (r cos v, r sin v, 0) metres.
PositionInOrbit(b, epoch) ==
    LET M == MeanAnomaly(b, epoch)
        pos_orb == <<b.semi_major * QuarterCos(M), b.semi_major * QuarterSin(M), 0>>
        pos_inertial == MatVec(OrbitRot(b), pos_orb)
    IN  [i \in 1..3 |-> to_millimeters(pos_inertial[i] * 1000, 1)]

\* Orrery::solve_position
RECURSIVE solve_position(_, _, _)
solve_position(bs, name, epoch) ==
    IF name \notin DOMAIN bs THEN NotFound
    ELSE LET body_cfg == bs[name]
             parent_pos == IF body_cfg.parent # None
                           THEN solve_position(bs, body_cfg.parent, epoch)
                           ELSE Some(Zero3)
         IN  IF ~parent_pos.some THEN NotFound
             ELSE IF body_cfg.semi_major = 0 THEN parent_pos
             ELSE Some(Add3(parent_pos.pos, PositionInOrbit(body_cfg, epoch)))

\* rot * vel_orb, vel_orb = (-vtheta sin v, vtheta cos v, 0), in units of
\* 2 pi / period metres per second.
VelocityInOrbit(b, epoch) ==
    LET M == MeanAnomaly(b, epoch)
        vel_orb == <<-b.semi_major * QuarterSin(M), b.semi_major * QuarterCos(M), 0>>
    IN  MatVec(OrbitRot(b), vel_orb)

\* solve_velocity as its doc comment has it: None for a fixed body.
solve_velocity_NoneIfFixed(bs, name, epoch) ==
    IF name \notin DOMAIN bs THEN NotFound
    ELSE IF bs[name].semi_major = 0 THEN NotFound
    ELSE Some(VelocityInOrbit(bs[name], epoch))

\* Orrery::solve_velocity
solve_velocity(bs, name, epoch) ==
    IF name \notin DOMAIN bs THEN NotFound
    ELSE IF bs[name].semi_major = 0 THEN Some(Zero3)
    ELSE Some(VelocityInOrbit(bs[name], epoch))

\* orbit_rot * eq_rot for a spin angle of `spin` quarter turns.
OrientedSpin(b, spin) ==
    MatMul(OrbitRot(b),
           MatMul(MatMul(from_rotation_z(b.eq_ascend_node),
                         from_rotation_x(b.obliquity)),
                  from_rotation_z(spin - b.eq_ascend_node + 4)))

\* solve_rotation without the early return: the equator is oriented even
\* when the body does not spin.
solve_rotation_AlwaysOriented(bs, name, epoch) ==
    IF name \notin DOMAIN bs THEN NotFound
    ELSE IF bs[name].rotation_period = 0 THEN Some(OrientedSpin(bs[name], 0))
    ELSE Some(OrientedSpin(bs[name], (4 * epoch) \div bs[name].rotation_period))

\* Orrery::solve_rotation
solve_rotation(bs, name, epoch) ==
    IF name \notin DOMAIN bs THEN NotFound
    ELSE IF bs[name].rotation_period = 0 THEN Some(DQuatIdentity)
    ELSE Some(OrientedSpin(bs[name], (4 * epoch) \div bs[name].rotation_period))

\* The inputs the specification ranges over.  C is the body whose elements
\* vary; D is in no system.
SolveNames == Names \cup {"D"}
RotationPeriods == {0, 2, 4}
QuarterAngles == {0, 1}
SolveBody(parent, a, rp, incl, obl, eq) ==
    [parent |-> parent, semi_major |-> a, period |-> 4,
     ascending_node |-> 1, inclination |-> incl, arg_of_pericenter |-> 0,
     rotation_period |-> rp, obliquity |-> obl, eq_ascend_node |-> eq]

\* Rotation::default with Orbit::default: a body given no elements.
DefaultBody(parent) == SolveBody(parent, 0, 0, 0, 0, 0)

\* A <- B <- C or A <- B, A <- C, as Orrery::init leaves them.
SolveSystem(aA, aB, aC, pC, rp, incl, obl, eq) ==
    [n \in Names |->
        CASE n = "A" -> [DefaultBody(None) EXCEPT !.semi_major = aA]
          [] n = "B" -> [DefaultBody("A") EXCEPT !.semi_major = aB]
          [] OTHER -> SolveBody(pC, aC, rp, incl, obl, eq)]

Ask ==
    /\ spc = "start"
    /\ \E n \in SolveNames, e \in Epochs : sbody' = n /\ sepoch' = e
    /\ spc' = "asked"
    /\ UNCHANGED <<sbodies, spos, svel, srot>>
    /\ UNCHANGED notSolve

SolvePosition ==
    /\ spc = "asked"
    /\ spos' = solve_position(sbodies, sbody, sepoch)
    /\ spc' = "position"
    /\ UNCHANGED <<sbodies, sbody, sepoch, svel, srot>>
    /\ UNCHANGED notSolve

SolveVelocity ==
    /\ spc = "position"
    /\ svel' = solve_velocity(sbodies, sbody, sepoch)
    /\ spc' = "velocity"
    /\ UNCHANGED <<sbodies, sbody, sepoch, spos, srot>>
    /\ UNCHANGED notSolve

SolveRotation ==
    /\ spc = "velocity"
    /\ srot' = solve_rotation(sbodies, sbody, sepoch)
    /\ spc' = "rotation"
    /\ UNCHANGED <<sbodies, sbody, sepoch, spos, svel>>
    /\ UNCHANGED notSolve

InitSolve ==
    /\ spc = "start"
    /\ \E aA \in SemiMajors, aB \in SemiMajors, aC \in SemiMajors,
          pC \in {"A", "B"}, rp \in RotationPeriods, incl \in QuarterAngles,
          obl \in QuarterAngles, eq \in QuarterAngles :
           sbodies = SolveSystem(aA, aB, aC, pC, rp, incl, obl, eq)
    /\ sbody = None /\ sepoch = 0
    /\ spos = Pending /\ svel = Pending /\ srot = Pending
    /\ IntegIdle
    /\ ProjIdle
    /\ OrrIdle
    /\ DockIdle
    /\ TickIdle
    /\ SoiIdle
    /\ ConvIdle
    /\ UnitIdle
    /\ SweepIdle
    /\ RebaseIdle

NextSolve == Ask \/ SolvePosition \/ SolveVelocity \/ SolveRotation

SpecSolve == InitSolve /\ [][NextSolve]_vars

\* The nearest of a body and its ancestors that has an orbit, None if none.
RECURSIVE NearestOrbiting(_, _)
NearestOrbiting(bs, name) ==
    IF bs[name].semi_major # 0 THEN name
    ELSE IF bs[name].parent = None THEN None
    ELSE NearestOrbiting(bs, bs[name].parent)

\* The body asked about is in the system and has a zero semi-major axis.
AskedFixed ==
    /\ sbody \in DOMAIN sbodies
    /\ sbodies[sbody].semi_major = 0

C13_NoSpinIsIdentity ==
    (spc = "rotation" /\ sbody \in DOMAIN sbodies
       /\ sbodies[sbody].rotation_period = 0) =>
      srot = Some(DQuatIdentity)

\* A body with no rotation period but an inclined orbit and a tilted
\* equator, asked about after the reference epoch.
C13_Witness ==
    /\ spc = "rotation"
    /\ sbody = "C"
    /\ sbodies["C"].rotation_period = 0
    /\ sbodies["C"].inclination # 0
    /\ sbodies["C"].obliquity # 0
    /\ sbodies["C"].eq_ascend_node # 0
    /\ sepoch > 0
    /\ srot = Some(DQuatIdentity)

(***************************************************************************)
(* precision.rs: to_meters_64 and to_millimeters in f64 arithmetic.        *)
(* A 64-bit magnitude is a little-endian sequence of 15-bit limbs, an f64  *)
(* the record [neg, m, e] of value (-1)^neg * m * 2^e with m < 2^53 (or    *)
(* m = 2^53 after a carry), every operation rounded as IEEE 754 rounds it  *)
(***************************************************************************)
LimbBits == 15
LimbBase == 32768
F64Bits == 53
I64Bits == 63

RECURSIVE Pow2(_)
Pow2(k) == IF k = 0 THEN 1 ELSE 2 * Pow2(k - 1)

\* Without the zero limbs at the top.
RECURSIVE Norm(_)
Norm(a) ==
    IF a = <<>> THEN a
    ELSE IF a[Len(a)] = 0 THEN Norm(SubSeq(a, 1, Len(a) - 1)) ELSE a

\* a * c + carry
RECURSIVE MulAdd(_, _, _)
MulAdd(a, c, carry) ==
    IF a = <<>> THEN (IF carry = 0 THEN <<>>
                      ELSE <<carry % LimbBase>> \o MulAdd(a, c, carry \div LimbBase))
    ELSE LET t == a[1] * c + carry
         IN  <<t % LimbBase>> \o MulAdd(Tail(a), c, t \div LimbBase)

MulSmall(a, c) == Norm(MulAdd(a, c, 0))
AddSmall(a, n) == Norm(MulAdd(a, 1, n))

\* Quotient and remainder of a by c.
RECURSIVE DivSmall(_, _)
DivSmall(a, c) ==
    IF a = <<>> THEN [q |-> <<>>, r |-> 0]
    ELSE LET hi == DivSmall(Tail(a), c)
             t == hi.r * LimbBase + a[1]
         IN  [q |-> <<t \div c>> \o hi.q, r |-> t % c]

\* a * 2^k and floor(a / 2^k)
Shl(a, k) ==
    MulSmall([i \in 1..(k \div LimbBits) |-> 0] \o a, Pow2(k % LimbBits))
Shr(a, k) ==
    IF k \div LimbBits >= Len(a) THEN <<>>
    ELSE Norm(DivSmall(SubSeq(a, (k \div LimbBits) + 1, Len(a)),
                       Pow2(k % LimbBits)).q)

RECURSIVE BitLenSmall(_)
BitLenSmall(n) == IF n = 0 THEN 0 ELSE 1 + BitLenSmall(n \div 2)
BitLen(a) ==
    IF a = <<>> THEN 0 ELSE LimbBits * (Len(a) - 1) + BitLenSmall(a[Len(a)])

IsOdd(a) == a # <<>> /\ a[1] % 2 = 1

\* The decimal number written in groups of three digits.
RECURSIVE FromThousands(_)
FromThousands(g) ==
    IF g = <<>> THEN <<>>
    ELSE AddSmall(MulSmall(FromThousands(SubSeq(g, 1, Len(g) - 1)), 1000),
                  g[Len(g)])

\* a / 2^d to the nearest integer, ties to even; `sticky` says that a itself
\* stands for a value slightly above a.
RoundNearestEven(a, d, sticky) ==
    LET q == Shr(a, d - 1)
        fl == Shr(q, 1)
        inexact == sticky \/ Shl(q, d - 1) # a
    IN  IF IsOdd(q) /\ (inexact \/ IsOdd(fl)) THEN AddSmall(fl, 1) ELSE fl

\* The f64 nearest to (-1)^neg * (a [+ a little if sticky]) * 2^e.
F64(neg, a, e, sticky) ==
    IF BitLen(a) <= F64Bits THEN [neg |-> neg, m |-> a, e |-> e]
    ELSE [neg |-> neg,
          m |-> RoundNearestEven(a, BitLen(a) - F64Bits, sticky),
          e |-> e + BitLen(a) - F64Bits]

\* I64Vec3::as_dvec3, one axis: i64 as f64.
as_dvec3(v) == F64(v.neg, v.mag, 0, FALSE)

\* x / 1000.0: the quotient is taken to more than 53 bits, the remainder is
\* the sticky bit.
DivThousand(x) ==
    IF x.m = <<>> THEN x
    ELSE LET k == 66 - BitLen(x.m)
             d == DivSmall(Shl(x.m, k), 1000)
         IN  F64(x.neg, Norm(d.q), x.e - k, d.r # 0)

\* x * 1000.0
MulThousand(x) == F64(x.neg, MulSmall(x.m, 1000), x.e, FALSE)

\* f64::round: to the nearest integer, ties away from zero.  The result is
\* the integer's magnitude.
f64_round(x) ==
    IF x.e >= 0 THEN Shl(x.m, x.e)
    ELSE LET q == Shr(x.m, (-x.e) - 1)
         IN  IF IsOdd(q) THEN AddSmall(Shr(q, 1), 1) ELSE Shr(q, 1)

\* f64::trunc
f64_trunc(x) == IF x.e >= 0 THEN Shl(x.m, x.e) ELSE Shr(x.m, -x.e)

\* i64::MAX
I64Max == <<32767, 32767, 32767, 32767, 7>>

\* `as i64`, of an integer-valued f64: saturating.
as_i64(neg, mag) ==
    IF mag = <<>> THEN [neg |-> FALSE, mag |-> mag]
    ELSE IF BitLen(mag) <= I64Bits THEN [neg |-> neg, mag |-> mag]
    ELSE [neg |-> neg, mag |-> IF neg THEN AddSmall(I64Max, 1) ELSE I64Max]

\* ToMetersExt::to_meters_64, one axis
to_meters_64(v) == DivThousand(as_dvec3(v))

\* (x * 1000.0) as i64, without the round.
to_millimeters_Truncating(x) ==
    as_i64(x.neg, f64_trunc(MulThousand(x)))

\* ToMillimetersExt for DVec3, one axis: (x * 1000.0).round() as i64
to_millimeters_f64(x) ==
    as_i64(x.neg, f64_round(MulThousand(x)))

\* The inputs the specification ranges over: a base and a small offset.
MmBases ==
    {<<>>, <<1, 0>>, <<123, 456, 789>>, <<2, 147, 483, 640>>,
     <<2, 251, 799, 813, 685, 240>>, <<4, 428, 617, 993, 686, 356>>,
     <<9, 7, 199, 254, 740, 992>>, <<4, 611, 686, 18, 427, 387, 904>>,
     <<9, 223, 372, 36, 854, 775, 800>>}
MmOffsets == 0..7
MmValue(neg, base, off) ==
    [neg |-> neg /\ AddSmall(FromThousands(base), off) # <<>>,
     mag |-> AddSmall(FromThousands(base), off)]

ToMeters ==
    /\ cpc = "start"
    /\ cm' = to_meters_64(cv)
    /\ cpc' = "metres"
    /\ UNCHANGED <<cv, cback>>
    /\ UNCHANGED notConv

ToMillimeters ==
    /\ cpc = "metres"
    /\ cback' = to_millimeters_f64(cm)
    /\ cpc' = "back"
    /\ UNCHANGED <<cv, cm>>
    /\ UNCHANGED notConv

InitConv ==
    /\ cpc = "start"
    /\ \E neg \in BOOLEAN, base \in MmBases, off \in MmOffsets :
         cv = MmValue(neg, base, off)
    /\ cm = 0 /\ cback = 0
    /\ IntegIdle
    /\ ProjIdle
    /\ OrrIdle
    /\ DockIdle
    /\ TickIdle
    /\ SoiIdle
    /\ SolveIdle
    /\ UnitIdle
    /\ SweepIdle
    /\ RebaseIdle

NextConv == ToMeters \/ ToMillimeters

SpecConv == InitConv /\ [][NextConv]_vars

\* C14 as stated: every millimetre value comes back exactly.
C14_RoundTripAnywhere == cpc = "back" => cback = cv

\* C14: a millimetre value of magnitude below 2^51 comes back from
\* to_millimeters(to_meters_64(v)) exactly.
C14_RoundTripBelow2To51 ==
    (cpc = "back" /\ BitLen(cv.mag) <= 51) => cback = cv

\* A value of 51 bits, not a multiple of 1000 mm, has made the round trip.
C14_Witness ==
    /\ cpc = "back"
    /\ BitLen(cv.mag) = 51
    /\ DivSmall(cv.mag, 1000).r # 0
    /\ cm.e < 0
    /\ cback = cv

(***************************************************************************)
(* orrery_cfg.rs: de_mass, de_distance and de_time.  serde hands the field *)
(* to the visitor method of the kind of value the format parsed; a string  *)
(* is the sequence of its whitespace-separated tokens.  A result is        *)
(* value * factor, the factor named by its literal in the source           *)
(***************************************************************************)
Ok(value, factor) == [ok |-> TRUE, value |-> value, factor |-> factor, err |-> ""]
Err(msg) == [ok |-> FALSE, value |-> 0, factor |-> "", err |-> msg]

\* str::parse::<f64> of a token.
ParseF64(tok) ==
    CASE tok = "5" -> Ok(5, "1.0")
      [] tok = "-2" -> Ok(-2, "1.0")
      [] tok = "1e3" -> Ok(1000, "1.0")
      [] OTHER -> Err("invalid float literal")

\* to_ascii_lowercase of a token.
to_ascii_lowercase(tok) ==
    CASE tok = "massEarth" -> "massearth"
      [] tok = "mSol" -> "msol"
      [] tok = "KG" -> "kg"
      [] tok = "AU" -> "au"
      [] tok = "Km" -> "km"
      [] tok = "LY" -> "ly"
      [] tok = "Hours" -> "hours"
      [] tok = "Yr" -> "yr"
      [] OTHER -> tok

\* parts.next().unwrap_or("") for the second token.
SecondToken(tokens) == IF Len(tokens) >= 2 THEN tokens[2] ELSE ""

\* The value a visitor's visit_str starts from: the first token, parsed.
FirstValue(tokens) ==
    IF tokens = <<>> THEN Err("missing value") ELSE ParseF64(tokens[1])

\* serde's Visitor methods the three visitors do not override.
InvalidType == Err("invalid type")

\* MassVisitor::visit_str's match
MassFactor(unit) ==
    CASE unit \in {"", "kg"} -> Ok(1, "1.0")
      [] unit \in {"massearth", "mearth"} -> Ok(1, "5.9722e24")
      [] unit \in {"masssol", "msol", "masssun"} -> Ok(1, "1.9885e30")
      [] OTHER -> Err("unknown mass unit")

\* DistanceVisitor::visit_str's match
DistanceFactor(unit) ==
    CASE unit \in {"", "m"} -> Ok(1, "1.0")
      [] unit = "km" -> Ok(1, "1_000.0")
      [] unit = "au" -> Ok(1, "1.495_978_707e11")
      [] unit \in {"ly", "lightyear", "lightyears"} -> Ok(1, "9.460_730_472_580_8e15")
      [] unit \in {"pc", "parsec", "parsecs"} -> Ok(1, "3.085_677_581_491_37e16")
      [] OTHER -> Err("unknown distance unit")

\* TimeVisitor::visit_str's match
TimeFactor(unit) ==
    CASE unit \in {"", "s", "sec", "secs", "second", "seconds"} -> Ok(1, "1.0")
      [] unit \in {"h", "hr", "hrs", "hour", "hours"} -> Ok(1, "3_600.0")
      [] unit \in {"d", "day", "days"} -> Ok(1, "86_400.0")
      [] unit \in {"yr", "year", "years"} -> Ok(1, "31_557_600.0")
      [] OTHER -> Err("unknown time unit")

\* visit_str, given the field's factor for the second token.
VisitStr(tokens, factor) ==
    IF ~FirstValue(tokens).ok THEN FirstValue(tokens)
    ELSE IF ~factor.ok THEN factor
    ELSE Ok(FirstValue(tokens).value, factor.factor)

\* deserialize_any with one of the three visitors: visit_f64, visit_u64 and
\* visit_str are the methods implemented.
Visit(in, factor) ==
    CASE in.kind = "f64" -> Ok(in.value, "1.0")
      [] in.kind = "u64" -> Ok(in.value, "1.0")
      [] in.kind = "str" -> VisitStr(in.tokens, factor)
      [] OTHER -> InvalidType

de_mass(in) ==
    Visit(in, MassFactor(to_ascii_lowercase(SecondToken(in.tokens))))
de_distance(in) ==
    Visit(in, DistanceFactor(to_ascii_lowercase(SecondToken(in.tokens))))
de_time(in) ==
    Visit(in, TimeFactor(to_ascii_lowercase(SecondToken(in.tokens))))

\* The inputs the specification ranges over.
UnitFields == {"mass", "distance", "time"}
NumberTokens == {"5", "-2", "1e3", "five", "5km"}
UnitTokens ==
    {"kg", "KG", "massEarth", "mSol", "lbs", "m", "Km", "AU", "LY", "pc",
     "miles", "s", "Hours", "d", "Yr", "weeks"}
UnitStrings ==
    {<<>>} \cup {<<n>> : n \in NumberTokens}
           \cup {<<n, u>> : n \in NumberTokens, u \in UnitTokens}
           \cup {<<n, u, "extra">> : n \in {"5", "five"}, u \in UnitTokens}
UnitInputs ==
    {[field |-> f, kind |-> "f64", value |-> v, tokens |-> <<>>] :
        f \in UnitFields, v \in {-2, 0, 5}}
    \cup {[field |-> f, kind |-> "u64", value |-> v, tokens |-> <<>>] :
        f \in UnitFields, v \in {0, 5}}
    \cup {[field |-> f, kind |-> "i64", value |-> v, tokens |-> <<>>] :
        f \in UnitFields, v \in {-2, 5}}
    \cup {[field |-> f, kind |-> "str", value |-> 0, tokens |-> t] :
        f \in UnitFields, t \in UnitStrings}

DeserializeMass ==
    /\ upc = "start" /\ uin.field = "mass"
    /\ uout' = de_mass(uin)
    /\ upc' = "done"
    /\ UNCHANGED uin
    /\ UNCHANGED notUnit

DeserializeDistance ==
    /\ upc = "start" /\ uin.field = "distance"
    /\ uout' = de_distance(uin)
    /\ upc' = "done"
    /\ UNCHANGED uin
    /\ UNCHANGED notUnit

DeserializeTime ==
    /\ upc = "start" /\ uin.field = "time"
    /\ uout' = de_time(uin)
    /\ upc' = "done"
    /\ UNCHANGED uin
    /\ UNCHANGED notUnit

InitUnits ==
    /\ upc = "start"
    /\ uin \in UnitInputs
    /\ uout = None
    /\ IntegIdle
    /\ ProjIdle
    /\ OrrIdle
    /\ DockIdle
    /\ TickIdle
    /\ SoiIdle
    /\ SolveIdle
    /\ ConvIdle
    /\ SweepIdle
    /\ RebaseIdle

NextUnits == DeserializeMass \/ DeserializeDistance \/ DeserializeTime

SpecUnits == InitUnits /\ [][NextUnits]_vars

\* The unit suffixes of a field, lower-cased.
KnownUnits(field) ==
    CASE field = "mass" ->
           {"", "kg", "massearth", "mearth", "masssol", "msol", "masssun"}
      [] field = "distance" ->
           {"", "m", "km", "au", "ly", "lightyear", "lightyears", "pc",
            "parsec", "parsecs"}
      [] OTHER ->
           {"", "s", "sec", "secs", "second", "seconds", "h", "hr", "hrs",
            "hour", "hours", "d", "day", "days", "yr", "year", "years"}

\* A string whose number does not parse or whose unit suffix is unknown.
BadUnitString(in) ==
    /\ in.kind = "str"
    /\ \/ ~FirstValue(in.tokens).ok
       \/ to_ascii_lowercase(SecondToken(in.tokens)) \notin KnownUnits(in.field)

\* C15: deserialising a mass, distance or time fails exactly when the input is
\* a string with an unparsable number or an unknown unit suffix; every
\* numeric literal -- float, unsigned or signed integer -- is accepted and
\* yields that number in the base unit.
C15_NumericLiteralsAccepted ==
    upc = "done" =>
      /\ uout.ok <=> ~BadUnitString(uin)
      /\ uin.kind # "str" => uout = Ok(uin.value, "1.0")

\* What holds of the code: failure exactly on a bad string or on a signed
\* integer, which no visitor method takes.
UnitsFailOnBadStringOrSignedInteger ==
    upc = "done" =>
      /\ uout.ok <=> ~(BadUnitString(uin) \/ uin.kind = "i64")
      /\ uin.kind \in {"f64", "u64"} => uout = Ok(uin.value, "1.0")

(***************************************************************************)
(* physics.rs: gravity's parallel sweep, one closure call per object in    *)
(* any order, the commands it queues through ParallelCommands, and their   *)
(* application when the system has returned; pass after pass, the objects  *)
(* moving in between                                                       *)
(***************************************************************************)
\* Gravity passes run in the sweep specification.
MaxPasses == 2

\* commands.entity(object_ent).insert(WithinSoi(cel_entity))
InsertWithinSoi(o, c) == [entity |-> o, insert |-> c]

\* A closure that inserts the relation itself instead of queueing a command.
sweep_object_WritesRelation(w, q, o) ==
    LET c == closest_celestial(w, o)
    IN  [w |-> [w EXCEPT !.accF[o] = Add3(@, GravitySum(w, o, 1)),
                         !.within_soi[o] = IF c # NoEntity THEN c ELSE @],
         q |-> q]

\* A closure that queues the removal of the relation when no celestial
\* attracts the object.
sweep_object_RemovesUnattracted(w, q, o) ==
    LET c == closest_celestial(w, o)
    IN  [w |-> [w EXCEPT !.accF[o] = Add3(@, GravitySum(w, o, 1))],
         q |-> IF w.within_soi[o] # c
               THEN Append(q, InsertWithinSoi(o, c)) ELSE q]

\* One call of the closure, lines 148-170, for object o: the world and the
\* command queue it leaves.
sweep_object(w, q, o) ==
    LET c == closest_celestial(w, o)
    IN  [w |-> [w EXCEPT !.accF[o] = Add3(@, GravitySum(w, o, 1))],
         q |-> IF c # NoEntity /\ w.within_soi[o] # c
               THEN Append(q, InsertWithinSoi(o, c)) ELSE q]

\* The commands of the queue applied in order: an insert of a relationship
\* component replaces the one the entity has.
RECURSIVE ApplyQueue(_, _)
ApplyQueue(w, q) ==
    IF q = <<>> THEN w
    ELSE ApplyQueue([w EXCEPT !.within_soi[Head(q).entity] = Head(q).insert],
                    Tail(q))

\* par_iter_mut().for_each: the closure runs for an object not yet visited.
SweepObject ==
    /\ wpc = "sweep"
    /\ \E o \in Objects(ww) \ wdone :
          LET r == sweep_object(ww, wqueue, o)
          IN  /\ ww' = r.w
              /\ wqueue' = r.q
              /\ wdone' = wdone \cup {o}
              /\ wpc' = IF wdone \cup {o} = Objects(ww) THEN "ended" ELSE "sweep"
    /\ UNCHANGED <<wpass, wpre>>
    /\ UNCHANGED notSweep

\* The system has returned; the schedule applies the queued commands.
SweepFlush ==
    /\ wpc = "ended"
    /\ ww' = ApplyQueue(ww, wqueue)
    /\ wqueue' = <<>>
    /\ wpc' = "flushed"
    /\ UNCHANGED <<wpass, wpre, wdone>>
    /\ UNCHANGED notSweep

\* The next tick's pass; apply_forces has moved object 1 in between.
SweepNextPass ==
    /\ wpc = "flushed"
    /\ wpass < MaxPasses
    /\ \E x1 \in SoiObjectX :
          ww' = [ww EXCEPT !.ptfs[1].translation_mm = <<x1, 0, 0>>,
                           !.accF = [e \in DockEntities |-> Zero3]]
    /\ wpre' = ww'
    /\ wdone' = {}
    /\ wpass' = wpass + 1
    /\ wpc' = "sweep"
    /\ UNCHANGED wqueue
    /\ UNCHANGED notSweep

InitSweep ==
    /\ wpc = "sweep"
    /\ wpass = 1
    /\ \E x1 \in SoiObjectX, m1 \in SoiObjectMasses, muA \in SoiMus,
          muB \in SoiMus, order \in SoiOrders, s1 \in SoiBefore, s2 \in SoiBefore :
           ww = SoiWorld(x1, m1, muA, muB, order, s1, s2)
    /\ wpre = ww
    /\ wdone = {}
    /\ wqueue = <<>>
    /\ IntegIdle
    /\ ProjIdle
    /\ OrrIdle
    /\ DockIdle
    /\ TickIdle
    /\ SoiIdle
    /\ SolveIdle
    /\ ConvIdle
    /\ UnitIdle
    /\ RebaseIdle

NextSweep == SweepObject \/ SweepFlush \/ SweepNextPass

SpecSweep == InitSweep /\ [][NextSweep]_vars

\* The commands of the queue that name object o.
CommandsFor(o) == {i \in DOMAIN wqueue : wqueue[i].entity = o}

\* While the sweep runs and until the flush the relations are those of the
\* start of the pass; the queue holds, for each visited object and at most
\* once, the insertion decided against the relation of the start of the
\* pass, and nothing for an object not yet visited.
SweepReadsStartOfPass ==
    wpc \in {"sweep", "ended"} =>
        /\ ww.within_soi = wpre.within_soi
        /\ \A o \in Objects(wpre) :
             LET c == closest_celestial(wpre, o)
             IN  IF o \in wdone /\ c # NoEntity /\ wpre.within_soi[o] # c
                 THEN /\ Cardinality(CommandsFor(o)) = 1
                      /\ \A i \in CommandsFor(o) : wqueue[i].insert = c
                 ELSE CommandsFor(o) = {}

\* A step that changes a relation is the flush, taken when the closure has
\* run for every object.
RelationsWrittenByFlushOnly ==
    ww'.within_soi # ww.within_soi =>
        /\ wpc = "ended"
        /\ wdone = Objects(ww)
        /\ ww' = ApplyQueue(ww, wqueue)

\* C25: during the parallel gravity sweep no WithinSoi relation is written:
\* every object's comparison reads the relation of the start of the pass,
\* each object queues at most one update, and the queued updates are
\* applied only after the sweep over all objects has ended.
C25_SweepComputesThenCommits ==
    []SweepReadsStartOfPass /\ [][RelationsWrittenByFlushOnly]_vars

\* Both objects have queued an insertion, neither relation has changed yet.
C25_Witness ==
    /\ wpc = "ended"
    /\ Len(wqueue) = 2
    /\ wqueue[1].entity # wqueue[2].entity
    /\ ww.within_soi = wpre.within_soi
    /\ \A o \in {1, 2} : wpre.within_soi[o] # NoEntity

\* Every relation names a celestial.
SoiTargetsAreCelestials ==
    wpc # "idle" =>
        \A o \in Objects(ww) :
            ww.within_soi[o] # NoEntity => ww.within_soi[o] \in CelestialsOf(ww)

\* No step takes a relation away, and a step of a pass in which nothing
\* attracts the object leaves its relation as it is.
SoiRelationKept ==
    \A o \in Objects(ww) :
        /\ ww.within_soi[o] # NoEntity => ww'.within_soi[o] # NoEntity
        /\ ~HasAttraction(wpre, o) => ww'.within_soi[o] = ww.within_soi[o]

\* C29: once an object has a WithinSoi relation no later pass removes it:
\* gravity only inserts or replaces the relation, a pass in which no
\* celestial attracts the object with a positive force keeps the relation
\* it had, and every relation's target is a celestial.
C29_SoiNeverRemoved ==
    []SoiTargetsAreCelestials /\ [][SoiRelationKept]_vars

\* After two passes a massless object, which nothing attracts, still has
\* its relation, and the other object's names the strongest pull.
C29_Witness ==
    /\ wpc = "flushed"
    /\ wpass = 2
    /\ ww.massProps[1].mass = 0
    /\ ww.within_soi[1] = SoiCelestialB
    /\ ~HasAttraction(wpre, 1)
    /\ HasAttraction(wpre, 2)
    /\ ww.within_soi[2] = Strongest(wpre, 2)
    /\ ww.accF[2] # Zero3

(***************************************************************************)
(* precision.rs: the float_origin system over the entities of a world.     *)
(* An entity is [has_ptf, child_of, loc, tf]: whether it carries a         *)
(* PreciseTransform and a ChildOf, the PreciseTransform, and the render    *)
(* Transform [translation, rotation, scale].                               *)
(***************************************************************************)
\* Ticks float_origin runs in.
MaxRebases == 2

\* The closure of float_origin, lines 24-38: the Transform `tf` after it
\* has run for the entity at `loc`; tf.scale is not written.
float_origin_closure(o, loc, t) ==
    LET origin_rotation_inverse == QuatInverse(o.rotation)
        rel_translation_mm ==
            saturating_sub(loc.translation_mm, o.translation_mm)
        rotated_translation ==
            RotateMm(origin_rotation_inverse, rel_translation_mm)
    IN  [t EXCEPT
           !.translation = [i \in 1..3 |-> MetersF32(rotated_translation[i])],
           !.rotation = QuatMul(origin_rotation_inverse, loc.rotation)]

\* The query of float_origin: (&PreciseTransform, &mut Transform),
\* Without<ChildOf>.
Rebased(ents) ==
    {e \in DOMAIN ents : ents[e].has_ptf /\ ~ents[e].child_of}

\* The system float_origin, over its whole query.
FloatOriginRun ==
    /\ fpc = "start"
    /\ fents' = [e \in DOMAIN fents |->
          IF e \in Rebased(fents)
          THEN [fents[e] EXCEPT
                  !.tf = float_origin_closure(forigin, fents[e].loc, @)]
          ELSE fents[e]]
    /\ fpre' = fents
    /\ fticks' = fticks + 1
    /\ fpc' = "rebased"
    /\ UNCHANGED forigin
    /\ UNCHANGED notRebase

\* Inputs of the re-basing specification.
RebaseOriginsX == {0, 1000, -2001, MmMin, MmMax}
NextOrigins ==
    [translation_mm : {<<x, 500, 0>> : x \in {0, MmMin, MmMax}},
     rotation : {0, 1}]
F32Zero == [k |-> 0, s |-> 0]

\* camera.rs: atmo_and_float_origin replaces the origin before the next
\* tick's float_origin.
WriteOrigin ==
    /\ fpc = "rebased"
    /\ fticks < MaxRebases
    /\ forigin' \in NextOrigins
    /\ fpc' = "start"
    /\ UNCHANGED <<fticks, fents, fpre>>
    /\ UNCHANGED notRebase

\* Entity 1 carries a PreciseTransform and no ChildOf; entity 2 carries a
\* ChildOf, with or without a PreciseTransform; entity 3 has a Transform
\* only.
RebaseWorld(x, q, childPtf) ==
    <<[has_ptf |-> TRUE, child_of |-> FALSE,
       loc |-> [translation_mm |-> <<x, -4321, 7>>, rotation |-> q],
       tf |-> [translation |-> <<F32Zero, F32Zero, F32Zero>>, rotation |-> 0,
               scale |-> 2]],
      [has_ptf |-> childPtf, child_of |-> TRUE,
       loc |-> [translation_mm |-> <<x, 0, 0>>, rotation |-> q],
       tf |-> [translation |-> <<MetersF32(5000), F32Zero, F32Zero>>,
               rotation |-> 2, scale |-> 1]],
      [has_ptf |-> FALSE, child_of |-> FALSE,
       loc |-> NoTransform,
       tf |-> [translation |-> <<F32Zero, MetersF32(-250), F32Zero>>,
               rotation |-> 3, scale |-> 1]]>>

InitRebase ==
    /\ fpc = "start"
    /\ fticks = 0
    /\ \E x \in RebaseOriginsX, y \in OriginsY, q \in QuarterTurns :
          forigin = [translation_mm |-> <<x, y, 0>>, rotation |-> q]
    /\ \E x \in CoordsX, q \in QuarterTurns, childPtf \in BOOLEAN :
          fents = RebaseWorld(x, q, childPtf)
    /\ fpre = fents
    /\ IntegIdle
    /\ ProjIdle
    /\ OrrIdle
    /\ DockIdle
    /\ TickIdle
    /\ SoiIdle
    /\ SolveIdle
    /\ ConvIdle
    /\ UnitIdle
    /\ SweepIdle

NextRebase == FloatOriginRun \/ WriteOrigin

SpecRebase == InitRebase /\ [][NextRebase]_vars

\* The difference a - b held to the i64 bounds, axis by axis.
ClampedDifference(a, b) ==
    [i \in 1..3 |->
        IF a[i] - b[i] > MmMax THEN MmMax
        ELSE IF a[i] - b[i] < MmMin THEN MmMin
        ELSE a[i] - b[i]]

\* C30: for every entity with a PreciseTransform and no ChildOf the
\* Transform float_origin writes has the translation and rotation that
\* FloatingOrigin::project returns for that PreciseTransform under the same
\* origin, the millimetre subtraction saturating at the bounds; an entity
\* with a ChildOf (or without a PreciseTransform) is not written.
C30_FloatOriginIsProject ==
    fpc = "rebased" =>
        \A e \in DOMAIN fents :
            IF fpre[e].has_ptf /\ ~fpre[e].child_of
            THEN /\ fents[e].tf.translation =
                      project(forigin, fpre[e].loc).translation
                 /\ fents[e].tf.rotation =
                      project(forigin, fpre[e].loc).rotation
                 /\ fents[e].tf.translation =
                      [i \in 1..3 |->
                          MetersF32(RotateMm(QuatInverse(forigin.rotation),
                              ClampedDifference(fpre[e].loc.translation_mm,
                                                forigin.translation_mm))[i])]
                 /\ fents[e].loc = fpre[e].loc
            ELSE fents[e] = fpre[e]

\* With the entity at the upper bound and the origin at the lower one the
\* difference has saturated; the entity that has a PreciseTransform and a
\* ChildOf keeps a Transform that is not the projection.
C30_Witness ==
    /\ fpc = "rebased"
    /\ fpre[1].loc.translation_mm[1] = MmMax
    /\ forigin.translation_mm[1] = MmMin
    /\ forigin.rotation = 1
    /\ fents[1].tf.translation[2] = NegF32(MetersF32(MmMax))
    /\ fents[1].tf.scale = 2
    /\ fents[2].has_ptf
    /\ fents[2].tf = fpre[2].tf
    /\ fents[2].tf.translation # project(forigin, fents[2].loc).translation

====
